---------------------------- MODULE Spec2Model ----------------------------
(***************************************************************************)
(* Verification model of the ESP32-C3 Remote-ID monitoring scripts:        *)
(* the presence trackers (FinalPacketTest, RealtimePacketDumper), the      *)
(* miss-counting test loops (RealBatteryTest, TruthfulPacketDumper,        *)
(* LivePacketDumper), the failure-counting monitors (RobustPacketMonitor,  *)
(* ReliablePacketMonitor) and the vendor IE decoder of rid_wifi_parser.    *)
(* A pass of a loop is one action; what a pass prints is the set `events`. *)
(* The periodic status prints of the loops are left out.                   *)
(*                                                                         *)
(* Text is modelled by the structure the code takes it apart with:         *)
(*   - the tabular `nmcli dev wifi list` output is a sequence of lines,    *)
(*     a line is the sequence of its whitespace-separated tokens;          *)
(*   - the terse `nmcli -t` output is a sequence of lines, a line is the   *)
(*     sequence of its ':'-separated segments (what line.split(':')        *)
(*     returns); a string that holds ':' is the sequence of its segments;  *)
(*   - a hex string of whole bytes is the sequence of its bytes.           *)
(***************************************************************************)
EXTENDS Integers, Sequences, FiniteSets, TLC

VARIABLES
    clock,                  \* time.time(): it grows by one with every pass
    actor,                  \* the loop that ran the last cycle
    wifi_data,              \* what its scan_wifi_networks() returned
    events,                 \* what that cycle reported
    \* FinalPacketTest
    fp_online, fp_packet_count, fp_last_seen_time,
    fp_lastTrans, fp_missRun, fp_ticks, fp_allFound, fp_onlineEvents,
    \* RealtimePacketDumper
    rt_online, rt_packet_count, rt_last_seen_time,
    rt_lastTrans, rt_missRun,
    \* RealBatteryTest
    bt_packet_count, bt_consecutive_misses, bt_done,
    \* LivePacketDumper
    lv_running, lv_exited, lv_packet_count, lv_esp32_packets,
    lv_last_esp32_time, lv_consecutive_misses,
    \* RobustPacketMonitor
    rb_running, rb_exited, rb_scan_count, rb_esp32_detections,
    rb_last_esp32_time, rb_consecutive_failures, rb_failRun,
    \* ReliablePacketMonitor
    rl_running, rl_exited, rl_scan_count, rl_esp32_detections,
    rl_last_esp32_time, rl_consecutive_failures, rl_failRun,
    sigint,                 \* the loops that were sent SIGINT
    \* the vendor IE decoder of rid_wifi_parser
    dec_pc, dec_oui, dec_typ, dec_payload, dec_form, hexstr, dec,
    \* the parsers of a scan line
    pl_pc,                  \* "idle", "line" (a line is at hand), "parsed"
    pl_line,                \* line.split()
    pl_parser,              \* the parse function that was called
    pl_rec,                 \* what it returned
    \* RobustPacketMonitor, step by step
    rs_pc,                  \* "top" (the while test), "scan", "sleep", "exit"
    rs_running, rs_scan_count, rs_esp32_detections, rs_consecutive_failures,
    rs_cancelled,           \* a scan call was abandoned
    rs_stats,               \* the final statistics were printed
    rs_sigAt,               \* where the loop was when SIGINT came
    \* SixtySecondPacketDumper
    ss_done, ss_esp32_packets, ss_elapsed,
    \* BatteryTestMonitor and CorrectedPacketDumper
    bm_esp32_packets, bm_failRun,
    cp_esp32_packets, cp_last_esp32_time, cp_failRun,
    slept,                  \* the seconds the last cycle slept
    \* the main loop of rid_wifi_parser
    wp_elapsed,             \* time.time() - (end - 30)
    wp_blk,                 \* what scan_block() returned
    wp_out,                 \* the lines the cycle printed
    \* the LAST-SEEN test of RealtimePacketDumper.is_esp32_present
    ls_pc,                  \* "idle", "input", "parsed", "classified"
    ls_last_seen,           \* parts[-1].strip()
    ls_seconds,             \* self._parse_last_seen_seconds(last_seen)
    ls_live,                \* seconds <= 3.0
    \* TimedPacketDumper
    td_done,                \* monitor() was left
    td_elapsed,             \* time.time() - self.start_time
    td_last_esp32_time, td_esp32_packets,
    \* AdvancedPacketMonitor
    av_pc,                  \* "run", "tcpdump", "nmcli", "done": where run() is
    av_running, av_packet_count, av_esp32_packets,
    av_current_time,        \* the local current_time of monitor_with_nmcli is bound
    av_failed,              \* how monitor_with_tcpdump failed: "none", "popen", "loop"
    av_fallback,            \* monitor_with_nmcli was called
    av_stats,               \* the final statistics were printed
    \* WorkingPacketMonitor
    wk_scan_count, wk_esp32_detections,
    wk_found,               \* check_for_esp32(wifi_data) of the last cycle
    wk_network              \* extract_esp32_info(wifi_data) of the last cycle

trackerVars == <<fp_online, fp_packet_count, fp_last_seen_time,
                 fp_lastTrans, fp_missRun, fp_ticks, fp_allFound, fp_onlineEvents,
                 rt_online, rt_packet_count, rt_last_seen_time,
                 rt_lastTrans, rt_missRun>>

fpVars == <<fp_online, fp_packet_count, fp_last_seen_time,
            fp_lastTrans, fp_missRun, fp_ticks, fp_allFound, fp_onlineEvents>>

rtVars == <<rt_online, rt_packet_count, rt_last_seen_time, rt_lastTrans, rt_missRun>>

btVars == <<bt_packet_count, bt_consecutive_misses, bt_done>>

lvVars == <<lv_running, lv_exited, lv_packet_count, lv_esp32_packets,
            lv_last_esp32_time, lv_consecutive_misses>>

rbVars == <<rb_running, rb_exited, rb_scan_count, rb_esp32_detections,
            rb_last_esp32_time, rb_consecutive_failures, rb_failRun>>

rlVars == <<rl_running, rl_exited, rl_scan_count, rl_esp32_detections,
            rl_last_esp32_time, rl_consecutive_failures, rl_failRun>>

decVars == <<dec_pc, dec_oui, dec_typ, dec_payload, dec_form, hexstr, dec>>

parseVars == <<pl_pc, pl_line, pl_parser, pl_rec>>

\* the variables of the parsers and of the stepwise loops
stepVars == <<rs_pc, rs_running, rs_scan_count, rs_esp32_detections,
              rs_consecutive_failures, rs_cancelled, rs_stats, rs_sigAt>>

ssVars == <<ss_done, ss_esp32_packets, ss_elapsed>>

delayVars == <<bm_esp32_packets, bm_failRun,
               cp_esp32_packets, cp_last_esp32_time, cp_failRun, slept>>

wpVars == <<wp_elapsed, wp_blk, wp_out>>

lsVars == <<ls_pc, ls_last_seen, ls_seconds, ls_live>>

tdVars == <<td_done, td_elapsed, td_last_esp32_time, td_esp32_packets>>

avVars == <<av_pc, av_running, av_packet_count, av_esp32_packets,
            av_current_time, av_failed, av_fallback, av_stats>>

wkVars == <<wk_scan_count, wk_esp32_detections, wk_found, wk_network>>

tailVars == <<tdVars, avVars, wkVars>>

extVars == <<parseVars, stepVars, ssVars, delayVars, wpVars, lsVars, tailVars>>

vars == <<clock, actor, wifi_data, events, trackerVars, btVars,
          lvVars, rbVars, rlVars, sigint, decVars, extVars>>

(***************************************************************************)
(* Bounds of the model.                                                    *)
(***************************************************************************)
MaxClock == 7
MaxPayload == 2
MaxHexBytes == 6
MaxElapsed == 24

(***************************************************************************)
(* The configured target (the __init__ of every script).                   *)
(***************************************************************************)
esp32_mac == "84:FC:E6:00:FC:05"
esp32_ssid == "TEST-OP-12345"

\* esp32_mac as the sequence of its ':'-separated segments
esp32_mac_segs == <<"84", "FC", "E6", "00", "FC", "05">>

(***************************************************************************)
(* Substring tests on tokens. Contains(tok, pat) is `pat in tok`.          *)
(***************************************************************************)
SubstringPairs ==
    { <<"Error:", "Error">>, <<"ErrorNet", "Error">>,
      <<"TEST-OP-12345-B", "TEST-OP-12345">> }

Contains(tok, pat) == tok = pat \/ <<tok, pat>> \in SubstringPairs

\* `pat in line` for a line given as its tokens (pat holds no separator)
InLine(pat, line) == \E i \in 1..Len(line) : Contains(line[i], pat)

\* `pat in wifi_data` for a text given as its lines
InText(pat, text) == \E k \in 1..Len(text) : InLine(pat, text[k])

\* str.upper() and str.lower() on the tokens of the model
Upper(tok) ==
    CASE tok = "fc" -> "FC"
      [] tok = "e6" -> "E6"
      [] tok = "84:fc:e6:00:fc:05" -> "84:FC:E6:00:FC:05"
      [] tok = "now" -> "NOW"
      [] OTHER -> tok

Lower(tok) ==
    CASE tok = "NOW" -> "now"
      [] tok = "Now" -> "now"
      [] tok = "5 Seconds ago" -> "5 seconds ago"
      [] tok = "FC" -> "fc"
      [] tok = "E6" -> "e6"
      [] tok = "84:FC:E6:00:FC:05" -> "84:fc:e6:00:fc:05"
      [] tok = "AA:BB:CC:DD:EE:FF" -> "aa:bb:cc:dd:ee:ff"
      [] OTHER -> tok

(***************************************************************************)
(* The external scan command. An outcome is what subprocess.run met:       *)
(* ok = the command ran, returned 0 and was in time; stdout = its lines.   *)
(***************************************************************************)
HeaderLine == <<"IN-USE", "BSSID", "SSID", "MODE", "CHAN", "RATE", "SIGNAL", "BARS", "SECURITY">>
TargetLine == <<esp32_mac, esp32_ssid, "Infra", "6", "65", "Mbit/s", "100", "bars", "WPA2">>
OtherLine == <<"AA:BB:CC:DD:EE:FF", "HomeNet", "Infra", "1", "130", "Mbit/s", "70", "bars", "WPA2">>

TabularOutcomes ==
    { [ok |-> FALSE, stdout |-> <<>>],
      [ok |-> TRUE, stdout |-> <<>>],
      [ok |-> TRUE, stdout |-> <<HeaderLine, OtherLine>>],
      [ok |-> TRUE, stdout |-> <<HeaderLine, OtherLine, TargetLine>>] }

\* the text of f"Error: {e}"
ErrorText == << <<"Error:", "timed", "out">> >>

\* FinalPacketTest.scan_wifi_networks: check=True, any exception gives the
\* error text
Final_scan_wifi_networks(outcome) ==
    IF outcome.ok THEN outcome.stdout ELSE ErrorText

\* FinalPacketTest.is_esp32_present (the flag of the returned pair)
Final_is_esp32_present(text) ==
    IF InText("Error", text) THEN FALSE
    ELSE \E k \in 1..Len(text) :
            InLine(esp32_mac, text[k]) /\ InLine(esp32_ssid, text[k])

(***************************************************************************)
(* The terse scan of RealtimePacketDumper:                                 *)
(* BSSID:SSID:CHAN:RATE:SIGNAL:BARS:SECURITY:LAST-SEEN, one line per       *)
(* network, each line the sequence of its ':'-separated segments.          *)
(***************************************************************************)
TerseLine(bssid_segs, ssid, last_seen) ==
    bssid_segs \o <<ssid, "6", "65 Mbit/s", "100", "bars", "WPA2", last_seen>>

\* the same line when the scan source reports no LAST-SEEN column
TerseLineNoLastSeen(bssid_segs, ssid) ==
    bssid_segs \o <<ssid, "6", "65 Mbit/s", "100", "bars", "WPA2">>

OtherMacSegs == <<"AA", "BB", "CC", "DD", "EE", "FF">>

TerseOutcomes ==
    { [ok |-> FALSE, stdout |-> <<>>],
      [ok |-> TRUE, stdout |-> <<>>],
      [ok |-> TRUE, stdout |-> << TerseLine(OtherMacSegs, "HomeNet", "now") >>] }
    \cup { [ok |-> TRUE,
            stdout |-> << TerseLine(OtherMacSegs, "HomeNet", "now"),
                          TerseLine(esp32_mac_segs, esp32_ssid, ls) >>] :
           ls \in {"", "now", "3 seconds ago", "10 seconds ago", "1 minute ago"} }
    \cup { [ok |-> TRUE, stdout |-> << TerseLineNoLastSeen(esp32_mac_segs, esp32_ssid) >>] }

\* RealtimePacketDumper.scan_wifi_networks
Realtime_scan_wifi_networks(outcome) ==
    IF outcome.ok THEN outcome.stdout ELSE << <<"Error", " timed out">> >>

\* the first word and the unit of the LAST-SEEN strings "<number> <unit> ago"
Numbers == {"1", "3", "4", "10", "x"}
Units == {"second", "seconds", "minute", "minutes", "hour", "hours", "days"}

\* the string "<number> <unit> ago"
Phrase(number, unit) == number \o " " \o unit \o " ago"

\* str.split() of the LAST-SEEN strings of the model
SplitWs(s) ==
    IF \E n \in Numbers, u \in Units : s = Phrase(n, u)
    THEN LET p == CHOOSE p \in Numbers \X Units : s = Phrase(p[1], p[2])
         IN <<p[1], p[2], "ago">>
    ELSE
    CASE s = "1 second ago" -> <<"1", "second", "ago">>
      [] s = "3 seconds ago" -> <<"3", "seconds", "ago">>
      [] s = "4 seconds ago" -> <<"4", "seconds", "ago">>
      [] s = "5 seconds ago" -> <<"5", "seconds", "ago">>
      [] s = "10 seconds ago" -> <<"10", "seconds", "ago">>
      [] s = "1 minute ago" -> <<"1", "minute", "ago">>
      [] s = "1 hour ago" -> <<"1", "hour", "ago">>
      [] s = "3 days ago" -> <<"3", "days", "ago">>
      [] s = "" -> <<>>
      [] OTHER -> <<s>>

\* float(tok): the tokens float() accepts, with their values
FloatTokens == {"1", "2", "3", "4", "5", "10"}

FloatOf(tok) ==
    CASE tok = "1" -> 1
      [] tok = "2" -> 2
      [] tok = "3" -> 3
      [] tok = "4" -> 4
      [] tok = "5" -> 5
      [] tok = "10" -> 10

\* str.startswith on the unit tokens
StartsWith(tok, prefix) ==
    CASE prefix = "sec" -> tok \in {"sec", "second", "seconds"}
      [] prefix = "min" -> tok \in {"min", "minute", "minutes"}
      [] prefix = "hour" -> tok \in {"hour", "hours"}
      [] OTHER -> FALSE

\* the 1e9 of _parse_last_seen_seconds
Huge == 1000000000

\* the 3.0 of is_esp32_present
FreshSeconds == 3

\* a mutant: an empty LAST-SEEN counts as seen now
ParseLastSeenSeconds_EmptyIsNow(last_seen_str) ==
    IF last_seen_str = "" THEN 0
    ELSE LET s == Lower(last_seen_str)
             parts == SplitWs(s)
         IN IF s = "now" THEN 0
            ELSE IF parts = <<>> THEN 0
            ELSE IF parts[1] \notin FloatTokens THEN Huge
            ELSE LET value == FloatOf(parts[1])
                     unit == IF Len(parts) > 1 THEN parts[2] ELSE "seconds"
                 IN IF StartsWith(unit, "sec") THEN value
                    ELSE IF StartsWith(unit, "min") THEN value * 60
                    ELSE IF StartsWith(unit, "hour") THEN value * 3600
                    ELSE Huge

\* RealtimePacketDumper._parse_last_seen_seconds
ParseLastSeenSeconds(last_seen_str) ==
    IF last_seen_str = "" THEN Huge
    ELSE LET s == Lower(last_seen_str)
             parts == SplitWs(s)
         IN IF s = "now" THEN 0
            ELSE IF parts = <<>> THEN Huge
            ELSE IF parts[1] \notin FloatTokens THEN Huge
            ELSE LET value == FloatOf(parts[1])
                     unit == IF Len(parts) > 1 THEN parts[2] ELSE "seconds"
                 IN IF StartsWith(unit, "sec") THEN value
                    ELSE IF StartsWith(unit, "min") THEN value * 60
                    ELSE IF StartsWith(unit, "hour") THEN value * 3600
                    ELSE Huge

\* `"Error" in wifi_data` for a terse text
TerseHasError(text) ==
    \E k \in 1..Len(text) : \E i \in 1..Len(text[k]) : Contains(text[k][i], "Error")

\* the lines of a terse text the loop of is_esp32_present looks at: 8 parts
\* or more
LongLines(text) == { k \in 1..Len(text) : Len(text[k]) >= 8 }

\* `bssid.upper() == self.esp32_mac.upper() and ssid == self.esp32_ssid`,
\* bssid = parts[0] and ssid = parts[1]; a string is equal to esp32_mac when
\* its segments are those of esp32_mac
TerseLineMatches(parts) ==
    /\ <<Upper(parts[1])>> = [i \in 1..Len(esp32_mac_segs) |-> Upper(esp32_mac_segs[i])]
    /\ parts[2] = esp32_ssid

\* a terse line that holds the target's address and label, as the tabular
\* scripts test it
TerseLineNamesTarget(parts) ==
    /\ Len(parts) >= Len(esp32_mac_segs) + 1
    /\ SubSeq(parts, 1, Len(esp32_mac_segs)) = esp32_mac_segs
    /\ \E i \in 1..Len(parts) : Contains(parts[i], esp32_ssid)

\* a mutant: the presence test of the tabular scripts (address and label
\* anywhere in the line, LAST-SEEN not looked at)
Realtime_is_esp32_present_NoLastSeen(text) ==
    IF TerseHasError(text) THEN FALSE
    ELSE \E k \in 1..Len(text) : TerseLineNamesTarget(text[k])

\* RealtimePacketDumper.is_esp32_present (the flag of the returned pair):
\* the first matching line decides
Realtime_is_esp32_present(text) ==
    IF TerseHasError(text) THEN FALSE
    ELSE LET matching == { k \in LongLines(text) : TerseLineMatches(text[k]) }
         IN IF matching = {} THEN FALSE
            ELSE LET first == CHOOSE k \in matching : \A j \in matching : k <= j
                     last_seen == text[first][Len(text[first])]
                 IN ParseLastSeenSeconds(last_seen) <= FreshSeconds

(***************************************************************************)
(* The tracker loop. FinalPacketTest.run and RealtimePacketDumper.run are  *)
(* the same text: one pass of `while True`, given the flag is_present and  *)
(* the time of the pass.                                                   *)
(***************************************************************************)
\* a mutant: CAME ONLINE is printed on every detection
run_pass_OnlineEveryTime(online, packet_count, last_seen_time, is_present, now) ==
    IF is_present
    THEN [online |-> TRUE, packet_count |-> packet_count + 1, last_seen_time |-> now,
          events |-> {"BecameOnline", "Confirmed"}]
    ELSE [online |-> FALSE, packet_count |-> packet_count, last_seen_time |-> last_seen_time,
          events |-> IF online THEN {"BecameOffline"} ELSE {}]

\* a mutant: a miss does not clear esp32_online
run_pass_StaysOnline(online, packet_count, last_seen_time, is_present, now) ==
    IF is_present
    THEN [online |-> TRUE, packet_count |-> packet_count + 1, last_seen_time |-> now,
          events |-> (IF ~online THEN {"BecameOnline"} ELSE {}) \cup {"Confirmed"}]
    ELSE [online |-> online, packet_count |-> packet_count, last_seen_time |-> last_seen_time,
          events |-> {}]

\* a mutant: the detection counter is bumped only on the transition
run_pass_CountTransitions(online, packet_count, last_seen_time, is_present, now) ==
    IF is_present
    THEN [online |-> TRUE,
          packet_count |-> IF ~online THEN packet_count + 1 ELSE packet_count,
          last_seen_time |-> now,
          events |-> (IF ~online THEN {"BecameOnline"} ELSE {}) \cup {"Confirmed"}]
    ELSE [online |-> FALSE, packet_count |-> packet_count, last_seen_time |-> last_seen_time,
          events |-> IF online THEN {"BecameOffline"} ELSE {}]

\* a mutant: WENT OFFLINE is printed on every miss
run_pass_OfflineEveryTime(online, packet_count, last_seen_time, is_present, now) ==
    IF is_present
    THEN [online |-> TRUE, packet_count |-> packet_count + 1, last_seen_time |-> now,
          events |-> (IF ~online THEN {"BecameOnline"} ELSE {}) \cup {"Confirmed"}]
    ELSE [online |-> FALSE, packet_count |-> packet_count, last_seen_time |-> last_seen_time,
          events |-> {"BecameOffline"}]

run_pass(online, packet_count, last_seen_time, is_present, now) ==
    IF is_present
    THEN [online |-> TRUE, packet_count |-> packet_count + 1, last_seen_time |-> now,
          events |-> (IF ~online THEN {"BecameOnline"} ELSE {}) \cup {"Confirmed"}]
    ELSE [online |-> FALSE, packet_count |-> packet_count, last_seen_time |-> last_seen_time,
          events |-> IF online THEN {"BecameOffline"} ELSE {}]

\* the last transition reported so far (kept for the properties only)
LastTransition(prev, evs) ==
    IF "BecameOnline" \in evs THEN "BecameOnline"
    ELSE IF "BecameOffline" \in evs THEN "BecameOffline"
    ELSE prev

\* FinalPacketTest.run: one pass of the loop
FinalPacketTest_run ==
    /\ clock < MaxClock
    /\ \E outcome \in TabularOutcomes :
         LET text == Final_scan_wifi_networks(outcome)
             is_present == Final_is_esp32_present(text)
             r == run_pass(fp_online, fp_packet_count, fp_last_seen_time,
                           is_present, clock + 1)
         IN /\ wifi_data' = text
            /\ fp_online' = r.online
            /\ fp_packet_count' = r.packet_count
            /\ fp_last_seen_time' = r.last_seen_time
            /\ events' = r.events
            /\ fp_lastTrans' = LastTransition(fp_lastTrans, r.events)
            /\ fp_missRun' = IF is_present THEN 0 ELSE fp_missRun + 1
            /\ fp_ticks' = fp_ticks + 1
            /\ fp_allFound' = (fp_allFound /\ is_present)
            /\ fp_onlineEvents' = fp_onlineEvents
                                  + (IF "BecameOnline" \in r.events THEN 1 ELSE 0)
    /\ clock' = clock + 1
    /\ actor' = "FinalPacketTest"
    /\ UNCHANGED <<rtVars, btVars, lvVars, rbVars, rlVars, sigint, decVars, extVars>>

\* RealtimePacketDumper.run: one pass of the loop
RealtimePacketDumper_run ==
    /\ clock < MaxClock
    /\ \E outcome \in TerseOutcomes :
         LET text == Realtime_scan_wifi_networks(outcome)
             is_present == Realtime_is_esp32_present(text)
             r == run_pass(rt_online, rt_packet_count, rt_last_seen_time,
                           is_present, clock + 1)
         IN /\ wifi_data' = text
            /\ rt_online' = r.online
            /\ rt_packet_count' = r.packet_count
            /\ rt_last_seen_time' = r.last_seen_time
            /\ events' = r.events
            /\ rt_lastTrans' = LastTransition(rt_lastTrans, r.events)
            /\ rt_missRun' = IF is_present THEN 0 ELSE rt_missRun + 1
    /\ clock' = clock + 1
    /\ actor' = "RealtimePacketDumper"
    /\ UNCHANGED <<fpVars, btVars, lvVars, rbVars, rlVars, sigint, decVars, extVars>>

(***************************************************************************)
(* RealBatteryTest.run_test (TruthfulPacketDumper.run is the same loop).   *)
(***************************************************************************)
\* max_misses of run_test
max_misses == 5

\* RealBatteryTest.scan_wifi_networks
RealBattery_scan_wifi_networks(outcome) ==
    IF outcome.ok THEN outcome.stdout ELSE ErrorText

\* RealBatteryTest.check_esp32_presence (the flag of the returned pair)
check_esp32_presence(text) ==
    IF InText("Error", text) THEN FALSE
    ELSE \E k \in 1..Len(text) :
            InLine(esp32_mac, text[k]) /\ InLine(esp32_ssid, text[k])

\* a mutant: the loop is left one miss early
run_test_miss_Early(consecutive_misses) ==
    [consecutive_misses |-> consecutive_misses + 1,
     done |-> consecutive_misses + 1 >= max_misses - 1]

\* the else branch of `if is_present:` in run_test: the miss is counted,
\* and the loop is left (break) when the count has reached max_misses
run_test_miss(consecutive_misses) ==
    [consecutive_misses |-> consecutive_misses + 1,
     done |-> consecutive_misses + 1 >= max_misses]

\* RealBatteryTest.run_test: one pass of the loop; the break ends it
RealBatteryTest_run_test ==
    /\ ~bt_done
    /\ clock < MaxClock
    /\ \E outcome \in TabularOutcomes :
         LET text == RealBattery_scan_wifi_networks(outcome)
             is_present == check_esp32_presence(text)
         IN /\ wifi_data' = text
            /\ IF is_present
               THEN /\ bt_packet_count' = bt_packet_count + 1
                    /\ bt_consecutive_misses' = 0
                    /\ bt_done' = FALSE
                    /\ events' = {"Detected"}
               ELSE LET m == run_test_miss(bt_consecutive_misses)
                    IN /\ bt_packet_count' = bt_packet_count
                       /\ bt_consecutive_misses' = m.consecutive_misses
                       /\ bt_done' = m.done
                       /\ events' = IF m.done THEN {"NotDetected", "Result"}
                                    ELSE {"NotDetected"}
    /\ clock' = clock + 1
    /\ actor' = "RealBatteryTest"
    /\ UNCHANGED <<trackerVars, lvVars, rbVars, rlVars, sigint, decVars, extVars>>

\* RealBatteryTest.signal_handler: sys.exit(0) ends the process
RealBatteryTest_signal_handler ==
    /\ ~bt_done
    /\ bt_done' = TRUE
    /\ sigint' = sigint \cup {"RealBatteryTest"}
    /\ events' = {"Stopping"}
    /\ actor' = "RealBatteryTest"
    /\ UNCHANGED <<clock, wifi_data, bt_packet_count, bt_consecutive_misses,
                   trackerVars, lvVars, rbVars, rlVars, decVars, extVars>>


(***************************************************************************)
(* LivePacketDumper.                                                       *)
(***************************************************************************)
\* a tabular line whose label holds a blank: "Lab TEST-OP-12345-B"
SpacedLabelLine ==
    <<"AA:BB:CC:DD:EE:01", "Lab", "TEST-OP-12345-B", "Infra", "11", "54", "Mbit/s",
      "40", "bars", "WPA2">>

\* a second access point of that network
SpacedLabelLine2 ==
    <<"AA:BB:CC:DD:EE:02", "Lab", "TEST-OP-12345-B", "Infra", "11", "54", "Mbit/s",
      "35", "bars", "WPA2">>

MonitorOutcomes ==
    TabularOutcomes
    \cup { [ok |-> TRUE, stdout |-> <<HeaderLine, SpacedLabelLine, TargetLine>>],
           [ok |-> TRUE, stdout |-> <<HeaderLine, SpacedLabelLine, SpacedLabelLine2>>] }

\* LivePacketDumper.scan_wifi_networks: stdout, or None (here the empty
\* text: the code only tests the truth of the value)
Live_scan_wifi_networks(outcome) ==
    IF outcome.ok THEN outcome.stdout ELSE <<>>

\* LivePacketDumper.find_esp32_packet: is a line returned
Live_find_esp32_packet(text) ==
    /\ text # <<>>
    /\ \E k \in 1..Len(text) :
          InLine(esp32_mac, text[k]) /\ InLine(esp32_ssid, text[k])

\* LivePacketDumper.signal_handler
LivePacketDumper_signal_handler ==
    /\ ~lv_exited
    /\ lv_running' = FALSE
    /\ lv_exited' = TRUE
    /\ sigint' = sigint \cup {"LivePacketDumper"}
    /\ events' = {"Stopping", "Summary"}
    /\ actor' = "LivePacketDumper"
    /\ UNCHANGED <<clock, wifi_data, lv_packet_count, lv_esp32_packets,
                   lv_last_esp32_time, lv_consecutive_misses,
                   trackerVars, btVars, rbVars, rlVars, decVars, extVars>>

\* LivePacketDumper.monitor: one pass of the loop
LivePacketDumper_monitor ==
    /\ lv_running /\ ~lv_exited
    /\ clock < MaxClock
    /\ \E outcome \in MonitorOutcomes :
         LET text == Live_scan_wifi_networks(outcome)
         IN /\ wifi_data' = text
            /\ lv_packet_count' = lv_packet_count + 1
            /\ IF text # <<>>
               THEN IF Live_find_esp32_packet(text)
                    THEN /\ lv_esp32_packets' = lv_esp32_packets + 1
                         /\ lv_last_esp32_time' = clock + 1
                         /\ lv_consecutive_misses' = 0
                         /\ events' = {"Detected"}
                    ELSE /\ lv_consecutive_misses' = lv_consecutive_misses + 1
                         /\ events' = {"Missed"}
                         /\ UNCHANGED <<lv_esp32_packets, lv_last_esp32_time>>
               ELSE /\ events' = {"ScanFailed"}
                    /\ UNCHANGED <<lv_esp32_packets, lv_last_esp32_time,
                                   lv_consecutive_misses>>
    /\ clock' = clock + 1
    /\ actor' = "LivePacketDumper"
    /\ UNCHANGED <<lv_running, lv_exited, trackerVars, btVars, rbVars, rlVars, sigint, decVars, extVars>>

(***************************************************************************)
(* RobustPacketMonitor and ReliablePacketMonitor.                          *)
(***************************************************************************)
\* does a tabular line begin with a blank: the rows of networks that are
\* not in use do, the header, the row in use and an error text do not
StartsWithSpace(line) ==
    line # <<>> /\ line[1] \notin {"*", "IN-USE", "Error:"}

NoNetwork == [none |-> TRUE]

\* RobustPacketMonitor.parse_network_line (ReliablePacketMonitor's is the
\* same, in a try block): parts[1] and parts[2] of line.split()
parse_network_line(line) ==
    IF line = <<>> \/ InLine("BSSID", line) \/ InLine("--", line) \/ ~StartsWithSpace(line)
    THEN NoNetwork
    ELSE IF Len(line) < 8 THEN NoNetwork
    ELSE [none |-> FALSE, bssid |-> line[2], ssid |-> line[3], mode |-> line[4],
          channel |-> line[5], rate |-> line[6], signal |-> line[7], bars |-> line[8],
          security |-> IF Len(line) > 8 THEN line[9] ELSE "Unknown"]

\* WiFiPacketMonitor.parse_wifi_line: the same without the test of the
\* leading blank
parse_wifi_line(line) ==
    IF line = <<>> \/ InLine("BSSID", line) \/ InLine("--", line)
    THEN NoNetwork
    ELSE IF Len(line) < 8 THEN NoNetwork
    ELSE [none |-> FALSE, bssid |-> line[2], ssid |-> line[3], mode |-> line[4],
          channel |-> line[5], rate |-> line[6], signal |-> line[7], bars |-> line[8],
          security |-> IF Len(line) > 8 THEN line[9] ELSE "Unknown"]

\* RobustPacketMonitor.is_esp32_network
is_esp32_network(network) ==
    IF network.none THEN FALSE
    ELSE network.bssid = esp32_mac \/ Contains(network.ssid, esp32_ssid)

\* the lines of a scan the loop counts as the target
Esp32Lines(text) ==
    { k \in 1..Len(text) : is_esp32_network(parse_network_line(text[k])) }

\* max_failures of RobustPacketMonitor.monitor and of
\* ReliablePacketMonitor.monitor
Robust_max_failures == 5
Reliable_max_failures == 3

\* a mutant: the warning waits for more than max_failures failures
count_failure_Late(consecutive_failures, max_failures) ==
    IF consecutive_failures + 1 > max_failures
    THEN [consecutive_failures |-> 0, warning |-> TRUE]
    ELSE [consecutive_failures |-> consecutive_failures + 1, warning |-> FALSE]

\* the else branch of `if wifi_data:` in RobustPacketMonitor.monitor
count_failure(consecutive_failures, max_failures) ==
    IF consecutive_failures + 1 >= max_failures
    THEN [consecutive_failures |-> 0, warning |-> TRUE]
    ELSE [consecutive_failures |-> consecutive_failures + 1, warning |-> FALSE]

\* RobustPacketMonitor.scan_wifi_networks: stdout, or ""
Robust_scan_wifi_networks(outcome) ==
    IF outcome.ok THEN outcome.stdout ELSE <<>>

\* RobustPacketMonitor.signal_handler
RobustPacketMonitor_signal_handler ==
    /\ ~rb_exited
    /\ rb_running' = FALSE
    /\ rb_exited' = TRUE
    /\ sigint' = sigint \cup {"RobustPacketMonitor"}
    /\ events' = {"Stopping", "Summary"}
    /\ actor' = "RobustPacketMonitor"
    /\ UNCHANGED <<clock, wifi_data, rb_scan_count, rb_esp32_detections,
                   rb_last_esp32_time, rb_consecutive_failures, rb_failRun,
                   trackerVars, btVars, lvVars, rlVars, decVars, extVars>>

\* RobustPacketMonitor.monitor: one pass of the loop
RobustPacketMonitor_monitor ==
    /\ rb_running /\ ~rb_exited
    /\ clock < MaxClock
    /\ \E outcome \in MonitorOutcomes :
         LET text == Robust_scan_wifi_networks(outcome)
             found == Cardinality(Esp32Lines(text))
             f == count_failure(rb_consecutive_failures, Robust_max_failures)
         IN /\ wifi_data' = text
            /\ rb_scan_count' = rb_scan_count + 1
            /\ IF text # <<>>
               THEN /\ rb_consecutive_failures' = 0
                    /\ rb_failRun' = 0
                    /\ rb_esp32_detections' = rb_esp32_detections + found
                    /\ rb_last_esp32_time' = IF found > 0 THEN clock + 1
                                             ELSE rb_last_esp32_time
                    /\ events' = IF found > 0 THEN {"Detected"} ELSE {}
               ELSE /\ rb_consecutive_failures' = f.consecutive_failures
                    /\ rb_failRun' = rb_failRun + 1
                    /\ events' = IF f.warning THEN {"Warning"} ELSE {}
                    /\ UNCHANGED <<rb_esp32_detections, rb_last_esp32_time>>
    /\ clock' = clock + 1
    /\ actor' = "RobustPacketMonitor"
    /\ UNCHANGED <<rb_running, rb_exited, trackerVars, btVars, lvVars, rlVars, sigint,
                   decVars, extVars>>

\* ReliablePacketMonitor.scan_wifi_networks: stdout when the command
\* returned 0 and printed something, else None (here the empty text)
Reliable_scan_wifi_networks(outcome) ==
    IF outcome.ok /\ outcome.stdout # <<>> THEN outcome.stdout ELSE <<>>

\* what the quick check of ReliablePacketMonitor.monitor can meet
QuickChecks == {"found", "not found", "raises"}

\* a mutant: an exception of the quick check leaves the loop
Reliable_failure_Fatal(consecutive_failures, quick) ==
    LET f == count_failure(consecutive_failures, Reliable_max_failures)
    IN IF ~f.warning
       THEN [consecutive_failures |-> f.consecutive_failures, events |-> {},
             exited |-> FALSE]
       ELSE IF quick = "raises"
       THEN [consecutive_failures |-> consecutive_failures + 1,
             events |-> {"Warning", "Error"}, exited |-> TRUE]
       ELSE [consecutive_failures |-> 0,
             events |-> {"Warning", IF quick = "found" THEN "StillTransmitting"
                                    ELSE "SignalNotFound"},
             exited |-> FALSE]

\* the else branch of `if wifi_data:` in ReliablePacketMonitor.monitor, with
\* the handler of `except Exception` that an exception of the quick check
\* reaches: the counter is then left as it is
Reliable_failure(consecutive_failures, quick) ==
    LET f == count_failure(consecutive_failures, Reliable_max_failures)
    IN IF ~f.warning
       THEN [consecutive_failures |-> f.consecutive_failures, events |-> {},
             exited |-> FALSE]
       ELSE IF quick = "raises"
       THEN [consecutive_failures |-> consecutive_failures + 1,
             events |-> {"Warning", "Error"}, exited |-> FALSE]
       ELSE [consecutive_failures |-> 0,
             events |-> {"Warning", IF quick = "found" THEN "StillTransmitting"
                                    ELSE "SignalNotFound"},
             exited |-> FALSE]

\* ReliablePacketMonitor.signal_handler
ReliablePacketMonitor_signal_handler ==
    /\ ~rl_exited
    /\ rl_running' = FALSE
    /\ rl_exited' = TRUE
    /\ sigint' = sigint \cup {"ReliablePacketMonitor"}
    /\ events' = {"Stopping", "Summary"}
    /\ actor' = "ReliablePacketMonitor"
    /\ UNCHANGED <<clock, wifi_data, rl_scan_count, rl_esp32_detections,
                   rl_last_esp32_time, rl_consecutive_failures, rl_failRun,
                   trackerVars, btVars, lvVars, rbVars, decVars, extVars>>

\* ReliablePacketMonitor.monitor: one pass of the loop
ReliablePacketMonitor_monitor ==
    /\ rl_running /\ ~rl_exited
    /\ clock < MaxClock
    /\ \E outcome \in MonitorOutcomes, quick \in QuickChecks :
         LET text == Reliable_scan_wifi_networks(outcome)
             found == Cardinality(Esp32Lines(text))
             f == Reliable_failure(rl_consecutive_failures, quick)
         IN /\ wifi_data' = text
            /\ rl_scan_count' = rl_scan_count + 1
            /\ IF text # <<>>
               THEN /\ rl_consecutive_failures' = 0
                    /\ rl_failRun' = 0
                    /\ rl_esp32_detections' = rl_esp32_detections + found
                    /\ rl_last_esp32_time' = IF found > 0 THEN clock + 1
                                             ELSE rl_last_esp32_time
                    /\ events' = IF found > 0 THEN {"Detected"} ELSE {}
                    /\ rl_exited' = FALSE
               ELSE /\ rl_consecutive_failures' = f.consecutive_failures
                    /\ rl_failRun' = rl_failRun + 1
                    /\ events' = f.events
                    /\ rl_exited' = f.exited
                    /\ UNCHANGED <<rl_esp32_detections, rl_last_esp32_time>>
    /\ clock' = clock + 1
    /\ actor' = "ReliablePacketMonitor"
    /\ UNCHANGED <<rl_running, trackerVars, btVars, lvVars, rbVars, sigint, decVars, extVars>>

(***************************************************************************)
(* The vendor IE decoder of rid_wifi_parser. A hex string is the sequence  *)
(* of its bytes: extract_vendor_ie passes on whole bytes in lower case, so *)
(* s[2:] drops a byte, len(s) < 8 is "fewer than 4 bytes" and              *)
(* s.startswith("dd") is "the first byte is 0xdd".                         *)
(***************************************************************************)
TagVendor == 221

ByteValues == {1, 2, TagVendor}

NoElement == [none |-> TRUE]

\* a mutant: three bytes are taken for enough, the type of a three-byte
\* element is 0
decode_opendroneid_ThreeBytes(hexs) ==
    LET s1 == IF Len(hexs) >= 1 /\ hexs[1] = TagVendor THEN Tail(hexs) ELSE hexs
        s2 == IF Len(s1) >= 1 THEN Tail(s1) ELSE s1
    IN IF Len(s2) < 3 THEN NoElement
       ELSE [none |-> FALSE, oui |-> SubSeq(s2, 1, 3),
             type |-> IF Len(s2) >= 4 THEN s2[4] ELSE 0,
             payload_len |-> Len(SubSeq(s2, 5, Len(s2)))]

\* decode_opendroneid
decode_opendroneid(hexs) ==
    LET s1 == IF Len(hexs) >= 1 /\ hexs[1] = TagVendor THEN Tail(hexs) ELSE hexs
        s2 == IF Len(s1) >= 1 THEN Tail(s1) ELSE s1
    IN IF Len(s2) < 4 THEN NoElement
       ELSE [none |-> FALSE, oui |-> SubSeq(s2, 1, 3), type |-> s2[4],
             payload_len |-> Len(SubSeq(s2, 5, Len(s2)))]

\* the bytes of a vendor element: with the element id 0xdd and the length
\* ("framed"), with the length alone ("length"), or the organization
\* header directly ("bare")
EncodeElement(form, oui, typ, payload) ==
    LET body == oui \o <<typ>> \o payload
    IN CASE form = "framed" -> <<TagVendor, Len(body)>> \o body
         [] form = "length" -> <<Len(body)>> \o body
         [] form = "bare" -> body

PayloadsUpTo(n) == UNION { [1..k -> ByteValues] : k \in 0..n }

\* the element is put into bytes
Encode ==
    /\ dec_pc = "input"
    /\ hexstr' = EncodeElement(dec_form, dec_oui, dec_typ, dec_payload)
    /\ dec_pc' = "encoded"
    /\ UNCHANGED <<dec_oui, dec_typ, dec_payload, dec_form, dec,
                   clock, actor, wifi_data, events, trackerVars, btVars,
                   lvVars, rbVars, rlVars, sigint, extVars>>

\* dec = decode_opendroneid(v)
Decode ==
    /\ dec_pc = "encoded"
    /\ dec' = decode_opendroneid(hexstr)
    /\ dec_pc' = "decoded"
    /\ UNCHANGED <<dec_oui, dec_typ, dec_payload, dec_form, hexstr,
                   clock, actor, wifi_data, events, trackerVars, btVars,
                   lvVars, rbVars, rlVars, sigint, extVars>>

(***************************************************************************)
(* The parsers of a scan line. A line is line.split(), the sequence of its *)
(* tokens; a string built as f"{a} {b}" is the sequence <<a, b>>, and the  *)
(* rate of a record is such a sequence. None is the token "None".          *)
(***************************************************************************)
\* the rows `nmcli dev wifi list` prints: an in-use marker or nothing, the
\* BSSID, the SSID (one word, two words or "--" when hidden), mode, channel,
\* the rate with or without its unit, and signal, bars, security
ScanLine(marker, bssid, label, rate, tail) ==
    marker \o <<bssid>> \o label \o <<"Infra", "6">> \o rate \o tail

Markers == { <<>>, <<"*">> }
Identities == { esp32_mac, "ZZ:ZZ:ZZ:ZZ:ZZ:ZZ", "84:FC:E6:00:FC", "--" }
Labels == { <<esp32_ssid>>, <<"Lab", "TEST-OP-12345-B">>, <<"--">> }
Rates == { <<"65", "Mbit/s">>, <<"65">> }
Tails == { <<"100", "bars", "WPA2">>, <<"100", "bars">>,
           <<"100", "bars", "WPA1", "WPA2">>, <<>> }

ScanLines ==
    { ScanLine(m, b, l, r, t) :
        m \in Markers, b \in Identities, l \in Labels, r \in Rates, t \in Tails }
    \cup { HeaderLine, <<>> }

\* `':' in part and len(part) == 17 and part.count(':') == 5`
LooksLikeMac(part) ==
    part \in { esp32_mac, "AA:BB:CC:DD:EE:FF", "AA:BB:CC:DD:EE:01", "ZZ:ZZ:ZZ:ZZ:ZZ:ZZ" }

\* parts[j] of Python for the index j of the model (from 1), None past the end
PartOr(parts, j, dflt) == IF j <= Len(parts) THEN parts[j] ELSE dflt

\* the index of the first token that looks like a MAC, 0 when there is none
FirstMac(parts) ==
    IF \E i \in 1..Len(parts) : LooksLikeMac(parts[i])
    THEN CHOOSE i \in 1..Len(parts) :
            /\ LooksLikeMac(parts[i])
            /\ \A j \in 1..(i - 1) : ~LooksLikeMac(parts[j])
    ELSE 0

\* find_esp32_packet of the dumpers: the line holds the MAC and the label
HoldsTarget(line) == InLine(esp32_mac, line) /\ InLine(esp32_ssid, line)

NoRecord == [none |-> TRUE]

\* the fields from the rate on, the MAC being parts[i]: the unit is looked
\* for in the token after the rate number
RateAndAfter(parts, i) ==
    IF i + 4 > Len(parts)
    THEN [rate |-> <<"None">>, signal |-> "None", bars |-> "None", security |-> "None"]
    ELSE IF i + 5 <= Len(parts) /\ parts[i + 5] = "Mbit/s"
         THEN [rate |-> <<parts[i + 4], parts[i + 5]>>,
               signal |-> PartOr(parts, i + 6, "None"),
               bars |-> PartOr(parts, i + 7, "None"),
               security |-> PartOr(parts, i + 8, "None")]
         ELSE [rate |-> <<parts[i + 4]>>,
               signal |-> PartOr(parts, i + 5, "None"),
               bars |-> PartOr(parts, i + 6, "None"),
               security |-> PartOr(parts, i + 7, "None")]

\* TimedPacketDumper.parse_esp32_packet
Timed_parse_esp32_packet(parts) ==
    IF Len(parts) < 8 THEN NoRecord
    ELSE LET i == FirstMac(parts)
             r == RateAndAfter(parts, i)
         IN IF i > 0
            THEN [none |-> FALSE, bssid |-> parts[i],
                  ssid |-> PartOr(parts, i + 1, "None"),
                  mode |-> PartOr(parts, i + 2, "None"),
                  channel |-> PartOr(parts, i + 3, "None"),
                  rate |-> r.rate, signal |-> r.signal, bars |-> r.bars,
                  security |-> r.security]
            ELSE [none |-> FALSE, bssid |-> parts[2], ssid |-> parts[3],
                  mode |-> parts[4], channel |-> parts[5], rate |-> <<parts[6]>>,
                  signal |-> parts[7], bars |-> parts[8],
                  security |-> PartOr(parts, 9, "Unknown")]

\* `x or 'Unknown'`
OrUnknown(x) == IF x = "None" THEN "Unknown" ELSE x

\* CorrectedPacketDumper.parse_esp32_packet
Corrected_parse_esp32_packet(parts) ==
    IF Len(parts) < 8 THEN NoRecord
    ELSE LET i == FirstMac(parts)
             r == RateAndAfter(parts, i)
             label == PartOr(parts, i + 1, "None")
         IN IF i > 0
            THEN [none |-> FALSE, bssid |-> parts[i],
                  ssid |-> OrUnknown(IF label = "--" THEN "Hidden" ELSE label),
                  mode |-> OrUnknown(PartOr(parts, i + 2, "None")),
                  channel |-> OrUnknown(PartOr(parts, i + 3, "None")),
                  rate |-> IF r.rate = <<"None">> THEN <<"Unknown">> ELSE r.rate,
                  signal |-> OrUnknown(r.signal), bars |-> OrUnknown(r.bars),
                  security |-> OrUnknown(r.security)]
            ELSE [none |-> FALSE, bssid |-> "Unknown", ssid |-> "Unknown",
                  mode |-> "Unknown", channel |-> "Unknown", rate |-> <<"Unknown">>,
                  signal |-> "Unknown", bars |-> "Unknown", security |-> "Unknown"]

\* RIDPacketDecoder.parse_beacon_data: parts[7] of a line of fewer than 8
\* tokens raises IndexError, which the except turns into None
parse_beacon_data(parts) ==
    IF Len(parts) < 8 THEN NoRecord
    ELSE [none |-> FALSE, bssid |-> parts[1], ssid |-> parts[2], mode |-> parts[3],
          channel |-> parts[4], rate |-> <<parts[5], parts[6]>>, signal |-> parts[7],
          bars |-> parts[8], security |-> PartOr(parts, 9, "Unknown")]

\* InstantPacketPrinter.parse_packet_data
parse_packet_data(parts) ==
    IF Len(parts) < 9 THEN NoRecord
    ELSE [none |-> FALSE, bssid |-> parts[1], ssid |-> parts[2], channel |-> parts[4],
          rate |-> <<parts[5], parts[6]>>, signal |-> parts[7], security |-> parts[9]]

\* analyze_rid_packets, from parts = esp32_line.split() on: parts[8] of a
\* line of 8 tokens raises IndexError, which the except of the function
\* turns into the result False
analyze_rid_packets(parts) ==
    IF Len(parts) < 9 THEN NoRecord
    ELSE [none |-> FALSE, bssid |-> parts[2], ssid |-> parts[3], mode |-> parts[4],
          channel |-> parts[5], rate |-> <<parts[6]>>, signal |-> parts[7],
          bars |-> parts[8], security |-> parts[9],
          wpa2 |-> PartOr(parts, 10, "")]

\* for line in lines: the next line of the scan output is at hand
NextLine ==
    /\ pl_pc \in {"idle", "parsed"}
    /\ pl_line' \in ScanLines
    /\ pl_pc' = "line"
    /\ UNCHANGED <<pl_parser, pl_rec, clock, actor, wifi_data, events, trackerVars,
                   btVars, lvVars, rbVars, rlVars, sigint, decVars, stepVars, ssVars, delayVars, wpVars, lsVars, tailVars>>

\* what a parse function does to the line at hand
Parsed(parser, rec) ==
    /\ pl_pc = "line"
    /\ pl_parser' = parser
    /\ pl_rec' = rec
    /\ pl_pc' = "parsed"
    /\ UNCHANGED <<pl_line, clock, actor, wifi_data, events, trackerVars,
                   btVars, lvVars, rbVars, rlVars, sigint, decVars, stepVars, ssVars, delayVars, wpVars, lsVars, tailVars>>

\* TimedPacketDumper.monitor: packet = self.parse_esp32_packet(esp32_line),
\* esp32_line being what find_esp32_packet found
TimedPacketDumper_parse_esp32_packet ==
    /\ HoldsTarget(pl_line)
    /\ Parsed("TimedPacketDumper", Timed_parse_esp32_packet(pl_line))

\* CorrectedPacketDumper.run: packet = self.parse_esp32_packet(esp32_line)
CorrectedPacketDumper_parse_esp32_packet ==
    /\ HoldsTarget(pl_line)
    /\ Parsed("CorrectedPacketDumper", Corrected_parse_esp32_packet(pl_line))

\* ReliablePacketMonitor.monitor: network = self.parse_network_line(line),
\* for every line of the scan output
ReliablePacketMonitor_parse_network_line ==
    /\ pl_line \in ScanLines
    /\ Parsed("ReliablePacketMonitor", parse_network_line(pl_line))

\* WiFiPacketMonitor.monitor: network = self.parse_wifi_line(line), for every
\* line of the scan output
WiFiPacketMonitor_parse_wifi_line ==
    /\ pl_line \in ScanLines
    /\ Parsed("WiFiPacketMonitor", parse_wifi_line(pl_line))

\* RIDPacketDecoder: packet_data = self.parse_beacon_data(esp32_line)
RIDPacketDecoder_parse_beacon_data ==
    /\ HoldsTarget(pl_line)
    /\ Parsed("RIDPacketDecoder", parse_beacon_data(pl_line))

\* InstantPacketPrinter: packet_data = self.parse_packet_data(esp32_line)
InstantPacketPrinter_parse_packet_data ==
    /\ HoldsTarget(pl_line)
    /\ Parsed("InstantPacketPrinter", parse_packet_data(pl_line))

\* final_rid_analysis.analyze_rid_packets, on the line it found
final_rid_analysis_analyze_rid_packets ==
    /\ HoldsTarget(pl_line)
    /\ Parsed("final_rid_analysis", analyze_rid_packets(pl_line))

NextParse ==
    \/ NextLine
    \/ TimedPacketDumper_parse_esp32_packet
    \/ CorrectedPacketDumper_parse_esp32_packet
    \/ ReliablePacketMonitor_parse_network_line
    \/ WiFiPacketMonitor_parse_wifi_line
    \/ RIDPacketDecoder_parse_beacon_data
    \/ InstantPacketPrinter_parse_packet_data
    \/ final_rid_analysis_analyze_rid_packets

(***************************************************************************)
(* RobustPacketMonitor.run step by step: the loop is at its while test, in *)
(* the scan call or in the rest of the cycle (up to the end of its sleep). *)
(* SIGINT runs signal_handler where the loop is: it sets running = False   *)
(* and sys.exit(0) raises SystemExit there.                                *)
(***************************************************************************)
loopVars == <<trackerVars, btVars, lvVars, rbVars, rlVars, decVars, parseVars>>

bmVars == <<bm_esp32_packets, bm_failRun>>

cpVars == <<cp_esp32_packets, cp_last_esp32_time, cp_failRun>>

\* a mutant: `while True:`, the loop does not look at self.running
RobustPacketMonitor_while_True ==
    /\ rs_pc = "top"
    /\ clock < MaxClock
    /\ rs_pc' = "scan"
    /\ UNCHANGED rs_stats
    /\ UNCHANGED <<rs_running, rs_scan_count, rs_esp32_detections,
                   rs_consecutive_failures, rs_cancelled, rs_sigAt,
                   clock, actor, wifi_data, events, sigint, loopVars, ssVars, delayVars,
                   wpVars, lsVars, tailVars>>

\* while self.running: a false test leaves monitor(), and the finally of
\* run() prints the final statistics
RobustPacketMonitor_while ==
    /\ rs_pc = "top"
    /\ IF rs_running
       THEN /\ clock < MaxClock
            /\ rs_pc' = "scan"
            /\ UNCHANGED rs_stats
       ELSE /\ rs_pc' = "exit"
            /\ rs_stats' = TRUE
    /\ UNCHANGED <<rs_running, rs_scan_count, rs_esp32_detections,
                   rs_consecutive_failures, rs_cancelled, rs_sigAt,
                   clock, actor, wifi_data, events, sigint, loopVars, ssVars, delayVars, wpVars, lsVars, tailVars>>

\* the cycle from the text the scan gave up to time.sleep(1)
Robust_cycle(text) ==
    LET f == count_failure(rs_consecutive_failures, Robust_max_failures)
    IN /\ wifi_data' = text
       /\ rs_scan_count' = rs_scan_count + 1
       /\ IF text # <<>>
          THEN /\ rs_consecutive_failures' = 0
               /\ rs_esp32_detections' = rs_esp32_detections + Cardinality(Esp32Lines(text))
               /\ events' = {}
          ELSE /\ rs_consecutive_failures' = f.consecutive_failures
               /\ rs_esp32_detections' = rs_esp32_detections
               /\ events' = IF f.warning THEN {"Warning"} ELSE {}
       /\ rs_pc' = "sleep"
       /\ clock' = clock + 1
       /\ actor' = "RobustPacketMonitor.run"

\* the scan call returns and the cycle goes on to its sleep
RobustPacketMonitor_scan_returns ==
    /\ rs_pc = "scan"
    /\ \E outcome \in MonitorOutcomes : Robust_cycle(Robust_scan_wifi_networks(outcome))
    /\ UNCHANGED <<rs_running, rs_cancelled, rs_stats, rs_sigAt, sigint, loopVars, ssVars,
                   delayVars, wpVars, lsVars, tailVars>>

\* time.sleep(1) returns
RobustPacketMonitor_sleep_returns ==
    /\ rs_pc = "sleep"
    /\ rs_pc' = "top"
    /\ slept' = 1
    /\ actor' = "RobustPacketMonitor.run"
    /\ UNCHANGED <<rs_running, rs_scan_count, rs_esp32_detections,
                   rs_consecutive_failures, rs_cancelled, rs_stats, rs_sigAt,
                   clock, wifi_data, events, sigint, loopVars, ssVars, bmVars, cpVars, wpVars, lsVars, tailVars>>

\* where SystemExit goes when signal_handler raises it at `pc`: in the scan
\* call subprocess.run kills the command and re-raises, and the bare except
\* of scan_wifi_networks returns "" ("swallowed"); elsewhere it leaves
\* monitor(), whose handlers are for KeyboardInterrupt and Exception, and
\* run(), whose finally prints the final statistics ("leaves")
SystemExit_at(pc) == IF pc = "scan" THEN "swallowed" ELSE "leaves"

\* SIGINT: signal_handler
RobustPacketMonitor_SIGINT ==
    /\ rs_pc # "exit"
    /\ rs_sigAt = "none"
    /\ rs_sigAt' = rs_pc
    /\ rs_running' = FALSE
    /\ sigint' = sigint \cup {"RobustPacketMonitor.run"}
    /\ IF SystemExit_at(rs_pc) = "swallowed"
       THEN /\ rs_cancelled' = TRUE
            /\ Robust_cycle(<<>>)
            /\ UNCHANGED rs_stats
       ELSE /\ rs_pc' = "exit"
            /\ rs_stats' = TRUE
            /\ events' = {"Stopping", "Summary"}
            /\ actor' = "RobustPacketMonitor.run"
            /\ UNCHANGED <<rs_cancelled, rs_scan_count, rs_esp32_detections,
                           rs_consecutive_failures, clock, wifi_data>>
    /\ UNCHANGED <<loopVars, ssVars, delayVars, wpVars, lsVars, tailVars>>

(***************************************************************************)
(* SixtySecondPacketDumper.                                                *)
(***************************************************************************)
max_runtime == 60

\* the seconds a pass takes: the scan (two commands, timeouts 2 s and 3 s)
\* and time.sleep(1)
PassSeconds == {2, 6}

\* SixtySecondPacketDumper.run: one pass of the loop
SixtySecondPacketDumper_run ==
    /\ ~ss_done
    /\ clock < MaxClock
    /\ IF ss_elapsed >= max_runtime
       THEN /\ ss_done' = TRUE
            /\ events' = {"TimeUp", "Summary"}
            /\ UNCHANGED <<ss_esp32_packets, ss_elapsed, wifi_data>>
       ELSE \E outcome \in TabularOutcomes, d \in PassSeconds :
              LET text == Final_scan_wifi_networks(outcome)
              IN /\ wifi_data' = text
                 /\ ss_esp32_packets' =
                        IF check_esp32_presence(text) THEN ss_esp32_packets + 1
                        ELSE ss_esp32_packets
                 /\ events' = IF check_esp32_presence(text) THEN {"Detected"} ELSE {}
                 /\ ss_elapsed' = ss_elapsed + d
                 /\ ss_done' = FALSE
    /\ clock' = clock + 1
    /\ actor' = "SixtySecondPacketDumper"
    /\ UNCHANGED <<sigint, loopVars, stepVars, delayVars, wpVars, lsVars, tailVars>>

\* SixtySecondPacketDumper.signal_handler: sys.exit(0) ends the process
SixtySecondPacketDumper_signal_handler ==
    /\ ~ss_done
    /\ ss_done' = TRUE
    /\ sigint' = sigint \cup {"SixtySecondPacketDumper"}
    /\ events' = {"Stopping"}
    /\ actor' = "SixtySecondPacketDumper"
    /\ UNCHANGED <<clock, wifi_data, ss_esp32_packets, ss_elapsed, loopVars, stepVars,
                   delayVars, wpVars, lsVars, tailVars>>

NextSignal ==
    \/ RobustPacketMonitor_while
    \/ RobustPacketMonitor_scan_returns
    \/ RobustPacketMonitor_sleep_returns
    \/ RobustPacketMonitor_SIGINT

NextSummary ==
    \/ RealBatteryTest_run_test
    \/ RealBatteryTest_signal_handler
    \/ SixtySecondPacketDumper_run
    \/ SixtySecondPacketDumper_signal_handler

(***************************************************************************)
(* BatteryTestMonitor and CorrectedPacketDumper: the sleep of a cycle.     *)
(***************************************************************************)
\* BatteryTestMonitor.scan_wifi_networks: stdout, or the text of an error
BatteryTest_scan_wifi_networks(outcome) ==
    IF outcome.ok THEN outcome.stdout ELSE ErrorText

\* a mutant: the sleep after a failed scan grows with the run of failures
BatteryTestMonitor_sleep_Backoff(failed, failures) ==
    IF failed THEN 2 * failures ELSE 1

\* BatteryTestMonitor.run: time.sleep(2) and continue after a scan that
\* gave an error (the `failures`-th in a row), time.sleep(1) otherwise
BatteryTestMonitor_sleep(failed, failures) ==
    IF failed THEN 2 ELSE 1

\* CorrectedPacketDumper.run: time.sleep(5) after a scan that gave an
\* error, time.sleep(1) otherwise
CorrectedPacketDumper_sleep(failed, failures) ==
    IF failed THEN 5 ELSE 1

\* BatteryTestMonitor.run: one pass of the loop
BatteryTestMonitor_run ==
    /\ clock < MaxClock
    /\ \E outcome \in TabularOutcomes :
         LET text == BatteryTest_scan_wifi_networks(outcome)
             failed == InText("Error", text)
         IN /\ wifi_data' = text
            /\ bm_failRun' = IF failed THEN bm_failRun + 1 ELSE 0
            /\ bm_esp32_packets' =
                   IF ~failed /\ check_esp32_presence(text) THEN bm_esp32_packets + 1
                   ELSE bm_esp32_packets
            /\ events' = IF failed THEN {"Error"}
                         ELSE IF check_esp32_presence(text) THEN {"Detected"} ELSE {}
            /\ slept' = BatteryTestMonitor_sleep(failed, bm_failRun + 1)
    /\ clock' = clock + 1
    /\ actor' = "BatteryTestMonitor"
    /\ UNCHANGED <<cpVars, sigint, loopVars, stepVars, ssVars, wpVars, lsVars, tailVars>>

\* CorrectedPacketDumper.run: one pass of the loop
CorrectedPacketDumper_run ==
    /\ clock < MaxClock
    /\ \E outcome \in TabularOutcomes :
         LET text == BatteryTest_scan_wifi_networks(outcome)
             failed == InText("Error", text)
             found == ~failed /\ check_esp32_presence(text)
         IN /\ wifi_data' = text
            /\ cp_failRun' = IF failed THEN cp_failRun + 1 ELSE 0
            /\ cp_esp32_packets' = IF found THEN cp_esp32_packets + 1 ELSE cp_esp32_packets
            /\ cp_last_esp32_time' = IF found THEN clock + 1 ELSE cp_last_esp32_time
            /\ events' = IF failed THEN {"Error"} ELSE IF found THEN {"Detected"} ELSE {}
            /\ slept' = CorrectedPacketDumper_sleep(failed, cp_failRun + 1)
    /\ clock' = clock + 1
    /\ actor' = "CorrectedPacketDumper"
    /\ UNCHANGED <<bmVars, sigint, loopVars, stepVars, ssVars, wpVars, lsVars, tailVars>>

\* each script is a process of its own: the one that runs is the only one
Alone(name) == actor \in {"none", name}

NextDelay ==
    \/ Alone("BatteryTestMonitor") /\ BatteryTestMonitor_run
    \/ Alone("CorrectedPacketDumper") /\ CorrectedPacketDumper_run
    \/ Alone("RobustPacketMonitor.run") /\ RobustPacketMonitor_while
    \/ Alone("RobustPacketMonitor.run") /\ RobustPacketMonitor_scan_returns
    \/ Alone("RobustPacketMonitor.run") /\ RobustPacketMonitor_sleep_returns

(***************************************************************************)
(* The main loop of rid_wifi_parser. A block is the part of the output of  *)
(* `iw dev wlp3s0 scan` under the line of BSSID: its "last seen:" line     *)
(* (the milliseconds, or none), its "SSID:" line and its other lines, each *)
(* with the word it starts with, whether it holds "Unknown:", and the      *)
(* bytes that follow.                                                      *)
(***************************************************************************)
\* end = time.time() + 30, in seconds after the start
end == 30

NoBlock == [none |-> TRUE]

NoLast == [none |-> TRUE]

Ago(ms) == [none |-> FALSE, ms |-> ms]

LastSeens == {NoLast, Ago(0), Ago(10000)}

\* lines of a block: a vendor element with one byte of payload, a vendor
\* element cut after its length, a single byte (hex_re asks for two), and a
\* line that is no element
BlockLines ==
    { [head |-> "IE:", unknown |-> TRUE, rest |-> <<TagVendor, 5, 1, 2, 1, 2, 1>>],
      [head |-> "IE:", unknown |-> TRUE, rest |-> <<TagVendor, 2, 1>>],
      [head |-> "IE:", unknown |-> TRUE, rest |-> <<TagVendor>>],
      [head |-> "signal:", unknown |-> FALSE, rest |-> <<>>] }

\* scan_block: None, or the block of BSSID
ScanBlocks ==
    {NoBlock} \cup
    { [none |-> FALSE, last |-> last, ssid |-> esp32_ssid, lines |-> lines] :
        last \in LastSeens, lines \in UNION { [1..k -> BlockLines] : k \in 0..2 } }

\* the age of a sighting is over the freshness threshold
Stale(last) == ~last.none /\ last.ms > FreshSeconds * 1000

\* a mutant: the vendor elements of a stale block are left out
extract_vendor_ie_FreshOnly(block) ==
    LET vendor(l) == /\ l.head \in {"IE:", "RSN:", "SSID:"}
                     /\ l.unknown
                     /\ Len(l.rest) >= 2
        kept == SelectSeq(block.lines, vendor)
    IN IF Stale(block.last) THEN <<>> ELSE [i \in 1..Len(kept) |-> kept[i].rest]

\* extract_vendor_ie
extract_vendor_ie(block) ==
    LET vendor(l) == /\ l.head \in {"IE:", "RSN:", "SSID:"}
                     /\ l.unknown
                     /\ Len(l.rest) >= 2
        kept == SelectSeq(block.lines, vendor)
    IN [i \in 1..Len(kept) |-> kept[i].rest]

\* v[:32]
First16(v) == SubSeq(v, 1, IF Len(v) < 16 THEN Len(v) ELSE 16)

\* the lines one pass of the loop prints
loop_prints(blk) ==
    IF blk.none THEN << [kind |-> "not seen"] >>
    ELSE LET vendors == extract_vendor_ie(blk)
             decs == [i \in 1..Len(vendors) |-> decode_opendroneid(vendors[i])]
             isDec(d) == ~d.none
             found == SelectSeq(decs, isDec)
             header == [kind |-> "last seen", last |-> blk.last, ssid |-> blk.ssid]
         IN <<header>> \o
            (IF Len(found) > 0
             THEN [i \in 1..Len(found) |->
                     [kind |-> "vendor IE", oui |-> found[i].oui, type |-> found[i].type,
                      payload_bytes |-> found[i].payload_len]]
             ELSE [i \in 1..Len(vendors) |->
                     [kind |-> "vendor IE raw", raw |-> First16(vendors[i]),
                      bytes |-> Len(vendors[i])]])

\* while time.time() < end: one pass, which takes secs seconds
rid_wifi_parser_loop ==
    /\ wp_elapsed < end
    /\ \E blk \in ScanBlocks, secs \in PassSeconds :
         /\ wp_blk' = blk
         /\ wp_out' = loop_prints(blk)
         /\ wp_elapsed' = wp_elapsed + secs
    /\ actor' = "rid_wifi_parser"
    /\ UNCHANGED <<clock, wifi_data, events, sigint, loopVars, stepVars, ssVars, delayVars,
                   lsVars, tailVars>>

NextVendor == rid_wifi_parser_loop

(***************************************************************************)
(* The presence checks of the tabular scripts, each applied to the output  *)
(* of a scan that succeeded: the header and one or two rows.               *)
(***************************************************************************)
esp32_mac_lower == "84:fc:e6:00:fc:05"

FilterIdentities == { esp32_mac, esp32_mac_lower, "AA:BB:CC:DD:EE:FF" }

FilterLabels == { esp32_ssid, "TEST-OP-12345-B", "HomeNet", "ErrorNet" }

FilterLine(bssid, label) ==
    <<bssid, label, "Infra", "6", "65", "Mbit/s", "100", "bars", "WPA2">>

FilterLines == { FilterLine(b, l) : b \in FilterIdentities, l \in FilterLabels }

FilterTexts ==
    { <<HeaderLine, l1>> : l1 \in FilterLines }
    \cup { <<HeaderLine, l1, l2>> : l1 \in FilterLines, l2 \in FilterLines }

\* WorkingPacketMonitor.check_for_esp32
check_for_esp32(text) ==
    IF text = <<>> THEN FALSE
    ELSE InText(esp32_mac, text) \/ InText(esp32_ssid, text)

\* AdvancedPacketMonitor.monitor_with_nmcli: the lines that are counted
monitor_with_nmcli_lines(text) ==
    { k \in 1..Len(text) : InLine(esp32_mac, text[k]) \/ InLine(esp32_ssid, text[k]) }

\* the presence checks of SpecFilter
FilterChecks ==
    { "RealBatteryTest.check_esp32_presence", "RobustPacketMonitor.is_esp32_network",
      "WorkingPacketMonitor.check_for_esp32", "AdvancedPacketMonitor.monitor_with_nmcli" }

\* a presence check was called on the output of a scan
Checked(name, text, found) ==
    /\ wifi_data' = text
    /\ actor' = name
    /\ events' = IF found THEN {"Found"} ELSE {}
    /\ UNCHANGED <<clock, sigint, trackerVars, btVars, lvVars, rbVars, rlVars,
                   decVars, extVars>>

\* RealBatteryTest.check_esp32_presence (TruthfulPacketDumper.is_esp32_present
\* and BatteryTestMonitor.find_esp32_packet are the same text)
RealBatteryTest_check_esp32_presence ==
    /\ actor \in FilterChecks \cup {"none"}
    /\ \E text \in FilterTexts :
           Checked("RealBatteryTest.check_esp32_presence", text, check_esp32_presence(text))

\* RobustPacketMonitor.monitor: is_esp32_network on every parsed line
RobustPacketMonitor_is_esp32_network ==
    /\ actor \in FilterChecks \cup {"none"}
    /\ \E text \in FilterTexts :
           Checked("RobustPacketMonitor.is_esp32_network", text, Esp32Lines(text) # {})

\* WorkingPacketMonitor.check_for_esp32
WorkingPacketMonitor_check_for_esp32 ==
    /\ actor \in FilterChecks \cup {"none"}
    /\ \E text \in FilterTexts :
           Checked("WorkingPacketMonitor.check_for_esp32", text, check_for_esp32(text))

\* AdvancedPacketMonitor.monitor_with_nmcli: the test of the for loop
AdvancedPacketMonitor_monitor_with_nmcli ==
    /\ actor \in FilterChecks \cup {"none"}
    /\ \E text \in FilterTexts :
           Checked("AdvancedPacketMonitor.monitor_with_nmcli", text,
                   monitor_with_nmcli_lines(text) # {})

NextFilter ==
    \/ RealBatteryTest_check_esp32_presence
    \/ RobustPacketMonitor_is_esp32_network
    \/ WorkingPacketMonitor_check_for_esp32
    \/ AdvancedPacketMonitor_monitor_with_nmcli

(***************************************************************************)
(* The LAST-SEEN test of RealtimePacketDumper.is_esp32_present, for a line *)
(* that matched: last_seen, its seconds, and `seconds <= 3.0`.             *)
(***************************************************************************)
LastSeenInputs ==
    { Phrase(n, u) : n \in Numbers, u \in Units }
    \cup { "", "now", "NOW", "Now", "5 Seconds ago", "soon", "5" }

\* last_seen = parts[-1].strip()
is_esp32_present_last_seen ==
    /\ ls_pc \in {"idle", "classified"}
    /\ ls_last_seen' \in LastSeenInputs
    /\ ls_seconds' = 0
    /\ ls_live' = FALSE
    /\ ls_pc' = "input"
    /\ actor' = "RealtimePacketDumper.is_esp32_present"
    /\ UNCHANGED <<clock, wifi_data, events, sigint, loopVars, stepVars, ssVars, delayVars,
                   wpVars, tailVars>>

\* seconds = self._parse_last_seen_seconds(last_seen)
RealtimePacketDumper_parse_last_seen_seconds ==
    /\ ls_pc = "input"
    /\ ls_seconds' = ParseLastSeenSeconds(ls_last_seen)
    /\ ls_pc' = "parsed"
    /\ UNCHANGED <<ls_last_seen, ls_live, actor, clock, wifi_data, events, sigint, loopVars,
                   stepVars, ssVars, delayVars, wpVars, tailVars>>

\* if seconds <= 3.0: return True, line; else: return False, "Stale entry"
is_esp32_present_returns ==
    /\ ls_pc = "parsed"
    /\ ls_live' = (ls_seconds <= FreshSeconds)
    /\ ls_pc' = "classified"
    /\ UNCHANGED <<ls_last_seen, ls_seconds, actor, clock, wifi_data, events, sigint, loopVars,
                   stepVars, ssVars, delayVars, wpVars, tailVars>>

NextLastSeen ==
    \/ is_esp32_present_last_seen
    \/ RealtimePacketDumper_parse_last_seen_seconds
    \/ is_esp32_present_returns

(***************************************************************************)
(* TimedPacketDumper.monitor. Time is counted in seconds from start_time,  *)
(* the time.time() of __init__, a positive number.                         *)
(***************************************************************************)
start_time == 100

timeout_seconds == 10

\* TimedPacketDumper.scan_wifi_networks: stdout, or None (here the empty
\* text)
Timed_scan_wifi_networks(outcome) ==
    IF outcome.ok THEN outcome.stdout ELSE <<>>

\* TimedPacketDumper.find_esp32_packet: is a line returned
Timed_find_esp32_packet(text) ==
    /\ text # <<>>
    /\ \E k \in 1..Len(text) :
          InLine(esp32_mac, text[k]) /\ InLine(esp32_ssid, text[k])

\* `self.last_esp32_time > 0 and
\*  (current_time - self.last_esp32_time) > self.timeout_seconds`
timed_out(last_esp32_time, current_time) ==
    last_esp32_time > 0 /\ (current_time - last_esp32_time) > timeout_seconds

\* TimedPacketDumper.monitor: one pass of the loop, which takes secs seconds;
\* the break ends it
TimedPacketDumper_monitor ==
    /\ ~td_done
    /\ td_elapsed < MaxElapsed
    /\ LET current_time == start_time + td_elapsed
       IN IF timed_out(td_last_esp32_time, current_time)
          THEN /\ td_done' = TRUE
               /\ events' = {"Debug", "Timeout"}
               /\ UNCHANGED <<td_elapsed, td_last_esp32_time, td_esp32_packets, wifi_data>>
          ELSE \E outcome \in TabularOutcomes, secs \in PassSeconds :
                 LET text == Timed_scan_wifi_networks(outcome)
                     found == Timed_find_esp32_packet(text)
                 IN /\ wifi_data' = text
                    /\ td_esp32_packets' = IF found THEN td_esp32_packets + 1
                                           ELSE td_esp32_packets
                    /\ td_last_esp32_time' = IF found THEN current_time
                                             ELSE td_last_esp32_time
                    /\ events' = IF found THEN {"Detected"}
                                 ELSE IF text = <<>> THEN {"ScanFailed"} ELSE {}
                    /\ td_elapsed' = td_elapsed + secs
                    /\ td_done' = FALSE
    /\ actor' = "TimedPacketDumper"
    /\ UNCHANGED <<clock, sigint, loopVars, stepVars, ssVars, delayVars, wpVars, lsVars, avVars, wkVars>>

NextTimed == TimedPacketDumper_monitor

(***************************************************************************)
(* AdvancedPacketMonitor.run: monitor_with_tcpdump, the fallback           *)
(* monitor_with_nmcli, and the final statistics of the finally clause.     *)
(* What the capture process does is an input: Popen starts it or raises;   *)
(* readline gives a line, the end of the stream, or raises; terminate of   *)
(* the finally clause returns or raises (a `sudo` child that still runs    *)
(* cannot be signalled by its parent).                                     *)
(***************************************************************************)
MaxPackets == 3

\* the regular expression of parse_tcpdump_line: six pairs of hex digits
TcpdumpMac(tok) == tok \in { esp32_mac, esp32_mac_lower, "AA:BB:CC:DD:EE:FF" }

TcpdumpLines ==
    { <<>>,
      <<"12:00:00.000000", "IP", "10.0.0.1", ">", "10.0.0.2">>,
      <<"12:00:00.000000", esp32_mac, ">", "AA:BB:CC:DD:EE:FF">>,
      <<"12:00:00.000000", esp32_mac_lower, ">", "AA:BB:CC:DD:EE:FF">>,
      <<"12:00:00.000000", "AA:BB:CC:DD:EE:FF", ">", esp32_mac>> }

\* AdvancedPacketMonitor.parse_tcpdump_line: the packet, or None
parse_tcpdump_line(line) ==
    IF \E i \in 1..Len(line) : TcpdumpMac(line[i])
    THEN LET i == CHOOSE i \in 1..Len(line) :
                     /\ TcpdumpMac(line[i])
                     /\ \A j \in 1..(i - 1) : ~TcpdumpMac(line[j])
             mac == Lower(line[i])
         IN [none |-> FALSE, mac |-> mac, is_esp32 |-> (mac = Lower(esp32_mac))]
    ELSE NoRecord

\* how monitor_with_tcpdump is left, from its finally clause:
\* process.terminate() returns, and the function returns (or SystemExit goes
\* on) through run(), whose finally clause prints the statistics; or it
\* raises, which run() catches with `except Exception` and falls back
tcpdump_leaves(terminate_raises) ==
    IF terminate_raises
    THEN /\ av_pc' = "nmcli"
         /\ av_fallback' = TRUE
         /\ av_stats' = FALSE
         /\ events' = {"tcpdump failed", "Falling back"}
    ELSE /\ av_pc' = "done"
         /\ av_fallback' = av_fallback
         /\ av_stats' = TRUE
         /\ events' = {"Final Statistics"}

\* run() up to the Popen of monitor_with_tcpdump. When Popen raises, the
\* `except Exception` of monitor_with_tcpdump prints the error, there is no
\* process to terminate, and monitor_with_tcpdump returns normally
AdvancedPacketMonitor_run ==
    /\ av_pc = "run"
    /\ Alone("AdvancedPacketMonitor")
    /\ actor' = "AdvancedPacketMonitor"
    /\ \E popen_raises \in BOOLEAN :
          IF popen_raises
          THEN /\ av_failed' = "popen"
               /\ av_pc' = "done"
               /\ av_stats' = TRUE
               /\ events' = {"Error with tcpdump", "Final Statistics"}
          ELSE /\ av_failed' = "none"
               /\ av_pc' = "tcpdump"
               /\ av_stats' = FALSE
               /\ events' = {}
    /\ UNCHANGED <<av_running, av_packet_count, av_esp32_packets, av_current_time,
                   av_fallback, wifi_data>>
    /\ UNCHANGED <<clock, sigint, loopVars, stepVars, ssVars, delayVars, wpVars, lsVars, tdVars, wkVars>>

\* one pass of `while self.running` of monitor_with_tcpdump
AdvancedPacketMonitor_tcpdump_readline ==
    /\ av_pc = "tcpdump"
    /\ av_running
    /\ \E line \in TcpdumpLines :
          LET packet == parse_tcpdump_line(line)
          IN /\ av_packet_count < MaxPackets
             /\ av_packet_count' = av_packet_count + 1
             /\ av_esp32_packets' = IF ~packet.none /\ packet.is_esp32
                                     THEN av_esp32_packets + 1 ELSE av_esp32_packets
             /\ wifi_data' = <<line>>
             /\ events' = IF ~packet.none /\ packet.is_esp32 THEN {"ESP32-C3 PACKET"} ELSE {}
    /\ actor' = "AdvancedPacketMonitor"
    /\ UNCHANGED <<av_pc, av_running, av_current_time, av_failed, av_fallback, av_stats>>
    /\ UNCHANGED <<clock, sigint, loopVars, stepVars, ssVars, delayVars, wpVars, lsVars, tdVars, wkVars>>

\* monitor_with_tcpdump ends: readline gives '' (break), or raises an
\* Exception (caught and printed), or SIGINT arrives (the handler clears
\* running and raises SystemExit); then the finally clause
AdvancedPacketMonitor_tcpdump_ends ==
    /\ av_pc = "tcpdump"
    /\ av_running
    /\ \E how \in {"eof", "raises", "sigint"}, terminate_raises \in BOOLEAN :
          /\ av_failed' = IF how = "raises" THEN "loop" ELSE av_failed
          /\ av_running' = (how # "sigint")
          /\ tcpdump_leaves(terminate_raises)
    /\ actor' = "AdvancedPacketMonitor"
    /\ UNCHANGED <<av_packet_count, av_esp32_packets, av_current_time, wifi_data>>
    /\ UNCHANGED <<clock, sigint, loopVars, stepVars, ssVars, delayVars, wpVars, lsVars, tdVars, wkVars>>

\* one pass of `while self.running` of monitor_with_nmcli. A scan that did
\* not return 0 leaves current_time unbound on the first pass, and the
\* status test raises NameError, which the loop catches
AdvancedPacketMonitor_nmcli_scan ==
    /\ av_pc = "nmcli"
    /\ av_running
    /\ av_packet_count < MaxPackets
    /\ \E outcome \in TabularOutcomes, raises \in BOOLEAN :
          IF raises
          THEN /\ events' = {"Error"}
               /\ UNCHANGED <<av_packet_count, av_esp32_packets, av_current_time, wifi_data>>
          ELSE LET text == IF outcome.ok THEN outcome.stdout ELSE <<>>
                   n == Cardinality(monitor_with_nmcli_lines(text))
               IN /\ wifi_data' = text
                  /\ av_esp32_packets' = av_esp32_packets + n
                  /\ av_packet_count' = av_packet_count + 1
                  /\ av_current_time' = (av_current_time \/ outcome.ok)
                  /\ events' = (IF n > 0 THEN {"ESP32-C3 DETECTED"} ELSE {})
                                \cup (IF av_current_time \/ outcome.ok THEN {} ELSE {"Error"})
    /\ actor' = "AdvancedPacketMonitor"
    /\ UNCHANGED <<av_pc, av_running, av_failed, av_fallback, av_stats>>
    /\ UNCHANGED <<clock, sigint, loopVars, stepVars, ssVars, delayVars, wpVars, lsVars, tdVars, wkVars>>

\* monitor_with_nmcli is left: running is false at the loop test, or SIGINT
\* arrives in a pass (SystemExit is not an Exception); the finally clause of
\* run() prints the statistics
AdvancedPacketMonitor_nmcli_ends ==
    /\ av_pc = "nmcli"
    /\ av_running' = FALSE
    /\ av_pc' = "done"
    /\ av_stats' = TRUE
    /\ events' = {"Final Statistics"}
    /\ actor' = "AdvancedPacketMonitor"
    /\ UNCHANGED <<av_packet_count, av_esp32_packets, av_current_time, av_failed,
                   av_fallback, wifi_data>>
    /\ UNCHANGED <<clock, sigint, loopVars, stepVars, ssVars, delayVars, wpVars, lsVars, tdVars, wkVars>>

NextAdvanced ==
    \/ AdvancedPacketMonitor_run
    \/ AdvancedPacketMonitor_tcpdump_readline
    \/ AdvancedPacketMonitor_tcpdump_ends
    \/ AdvancedPacketMonitor_nmcli_scan
    \/ AdvancedPacketMonitor_nmcli_ends

(***************************************************************************)
(* WorkingPacketMonitor.monitor: the detection predicate on the whole scan *)
(* output, then the extraction of the record, line by line.                *)
(***************************************************************************)
\* the target's row when it is the connected network, and a row cut short
InUseTargetLine ==
    <<"*", esp32_mac, esp32_ssid, "Infra", "6", "65", "Mbit/s", "100", "bars", "WPA2">>

ShortTargetLine == <<esp32_mac, esp32_ssid, "Infra", "6", "65", "Mbit/s", "100">>

WorkingTexts ==
    FilterTexts
    \cup { <<>>, <<HeaderLine, InUseTargetLine>>, <<HeaderLine, ShortTargetLine>>,
           <<HeaderLine, ShortTargetLine, TargetLine>> }

\* the dictionary built from `parts = line.split()`
extract_parts(parts) ==
    [none |-> FALSE, bssid |-> parts[2], ssid |-> parts[3], mode |-> parts[4],
     channel |-> parts[5], rate |-> parts[6], signal |-> parts[7],
     bars |-> parts[8], security |-> PartOr(parts, 9, "Unknown")]

\* WorkingPacketMonitor.extract_esp32_info: the dictionary of the first line
\* that holds the MAC and the label and has 8 parts or more, or None
extract_esp32_info(text) ==
    LET hits == { k \in 1..Len(text) :
                    /\ InLine(esp32_mac, text[k]) /\ InLine(esp32_ssid, text[k])
                    /\ Len(text[k]) >= 8 }
    IN IF hits = {} THEN NoRecord
       ELSE extract_parts(text[CHOOSE k \in hits : \A j \in hits : k <= j])

\* one cycle of WorkingPacketMonitor.monitor
WorkingPacketMonitor_monitor ==
    /\ Alone("WorkingPacketMonitor")
    /\ wk_scan_count < MaxPackets
    /\ \E text \in WorkingTexts :
          LET found == check_for_esp32(text)
              network == IF found THEN extract_esp32_info(text) ELSE NoRecord
          IN /\ wifi_data' = text
             /\ wk_found' = found
             /\ wk_network' = network
             /\ wk_esp32_detections' = IF found THEN wk_esp32_detections + 1
                                        ELSE wk_esp32_detections
             /\ events' = IF ~found THEN {}
                           ELSE IF network = NoRecord THEN {"Detected", "parsing failed"}
                           ELSE {"Detected", "Displayed"}
    /\ wk_scan_count' = wk_scan_count + 1
    /\ actor' = "WorkingPacketMonitor"
    /\ UNCHANGED <<clock, sigint, loopVars, stepVars, ssVars, delayVars, wpVars, lsVars,
                   tdVars, avVars>>

NextWorking == WorkingPacketMonitor_monitor

InitLoops ==
    /\ clock = 0
    /\ actor = "none"
    /\ wifi_data = <<>>
    /\ events = {}
    /\ fp_online = FALSE
    /\ fp_packet_count = 0
    /\ fp_last_seen_time = 0
    /\ fp_lastTrans = "none"
    /\ fp_missRun = 0
    /\ fp_ticks = 0
    /\ fp_allFound = TRUE
    /\ fp_onlineEvents = 0
    /\ rt_online = FALSE
    /\ rt_packet_count = 0
    /\ rt_last_seen_time = 0
    /\ rt_lastTrans = "none"
    /\ rt_missRun = 0
    /\ bt_packet_count = 0
    /\ bt_consecutive_misses = 0
    /\ bt_done = FALSE
    /\ lv_running = TRUE
    /\ lv_exited = FALSE
    /\ lv_packet_count = 0
    /\ lv_esp32_packets = 0
    /\ lv_last_esp32_time = 0
    /\ lv_consecutive_misses = 0
    /\ rb_running = TRUE
    /\ rb_exited = FALSE
    /\ rb_scan_count = 0
    /\ rb_esp32_detections = 0
    /\ rb_last_esp32_time = 0
    /\ rb_consecutive_failures = 0
    /\ rb_failRun = 0
    /\ rl_running = TRUE
    /\ rl_exited = FALSE
    /\ rl_scan_count = 0
    /\ rl_esp32_detections = 0
    /\ rl_last_esp32_time = 0
    /\ rl_consecutive_failures = 0
    /\ rl_failRun = 0
    /\ sigint = {}
    /\ pl_pc = "idle"
    /\ pl_line = <<>>
    /\ pl_parser = "none"
    /\ pl_rec = [none |-> TRUE]
    /\ rs_pc = "top"
    /\ rs_running = TRUE
    /\ rs_scan_count = 0
    /\ rs_esp32_detections = 0
    /\ rs_consecutive_failures = 0
    /\ rs_cancelled = FALSE
    /\ rs_stats = FALSE
    /\ rs_sigAt = "none"
    /\ ss_done = FALSE
    /\ ss_esp32_packets = 0
    /\ ss_elapsed = 0
    /\ bm_esp32_packets = 0
    /\ bm_failRun = 0
    /\ cp_esp32_packets = 0
    /\ cp_last_esp32_time = 0
    /\ cp_failRun = 0
    /\ slept = 0
    /\ wp_elapsed = 0
    /\ wp_blk = NoBlock
    /\ wp_out = <<>>
    /\ ls_pc = "idle"
    /\ ls_last_seen = ""
    /\ ls_seconds = 0
    /\ ls_live = FALSE
    /\ td_done = FALSE
    /\ td_elapsed = 0
    /\ td_last_esp32_time = 0
    /\ td_esp32_packets = 0
    /\ av_pc = "run"
    /\ av_running = TRUE
    /\ av_packet_count = 0
    /\ av_esp32_packets = 0
    /\ av_current_time = FALSE
    /\ av_failed = "none"
    /\ av_fallback = FALSE
    /\ av_stats = FALSE
    /\ wk_scan_count = 0
    /\ wk_esp32_detections = 0
    /\ wk_found = FALSE
    /\ wk_network = NoRecord

Init ==
    /\ InitLoops
    /\ dec_pc = "idle"
    /\ dec_oui = <<>>
    /\ dec_typ = 0
    /\ dec_payload = <<>>
    /\ dec_form = "framed"
    /\ hexstr = <<>>
    /\ dec = NoElement

InitDecoder ==
    /\ InitLoops
    /\ dec_pc = "input"
    /\ dec_oui \in [1..3 -> ByteValues]
    /\ dec_typ \in ByteValues
    /\ dec_payload \in PayloadsUpTo(MaxPayload)
    /\ dec_form \in {"framed", "length", "bare"}
    /\ hexstr = <<>>
    /\ dec = NoElement

NextTracker ==
    \/ FinalPacketTest_run
    \/ RealtimePacketDumper_run

NextPresence ==
    \/ FinalPacketTest_run
    \/ RealBatteryTest_run_test

SpecPresence == Init /\ [][NextPresence]_vars

NextDecoder == Encode \/ Decode

\* the hex strings extract_vendor_ie passes on: hex_re asks for two bytes
\* at least
HexStrings == UNION { [1..k -> ByteValues] : k \in 2..MaxHexBytes }

InitHex ==
    /\ InitLoops
    /\ dec_pc = "encoded"
    /\ dec_oui = <<>>
    /\ dec_typ = 0
    /\ dec_payload = <<>>
    /\ dec_form = "hex"
    /\ hexstr \in HexStrings
    /\ dec = NoElement

NextHex == Decode

SpecHex == InitHex /\ [][NextHex]_vars

SpecParse == Init /\ [][NextParse]_vars

SpecDelay == Init /\ [][NextDelay]_vars

SpecVendor == Init /\ [][NextVendor]_vars

SpecFilter == Init /\ [][NextFilter]_vars

SpecLastSeen == Init /\ [][NextLastSeen]_vars

SpecTimed == Init /\ [][NextTimed]_vars

SpecAdvanced == Init /\ [][NextAdvanced]_vars

SpecWorking == Init /\ [][NextWorking]_vars

SpecSignal == Init /\ [][NextSignal]_vars

\* the steps of the loop are taken: the while test is evaluated, the scan
\* command ends or is killed at its timeout, time.sleep(1) returns
SpecSignalFair ==
    /\ Init /\ [][NextSignal]_vars
    /\ WF_vars(RobustPacketMonitor_while)
    /\ WF_vars(RobustPacketMonitor_scan_returns)
    /\ WF_vars(RobustPacketMonitor_sleep_returns)

SpecSummary == Init /\ [][NextSummary]_vars

SpecDecoder == InitDecoder /\ [][NextDecoder]_vars

SpecTracker == Init /\ [][NextTracker]_vars

NextMiss ==
    \/ RealBatteryTest_run_test
    \/ LivePacketDumper_monitor
    \/ LivePacketDumper_signal_handler

SpecMiss == Init /\ [][NextMiss]_vars

NextFailures ==
    \/ Alone("RobustPacketMonitor") /\ RobustPacketMonitor_monitor
    \/ Alone("ReliablePacketMonitor") /\ ReliablePacketMonitor_monitor

SpecFailures == Init /\ [][NextFailures]_vars

NextStop ==
    \/ RealBatteryTest_run_test
    \/ RealBatteryTest_signal_handler
    \/ ReliablePacketMonitor_monitor
    \/ ReliablePacketMonitor_signal_handler

SpecStop == Init /\ [][NextStop]_vars

(***************************************************************************)
(* Properties of the trackers.                                             *)
(***************************************************************************)
\* the target's record in a terse scan, with a LAST-SEEN among `seen`
HasTargetSeen(text, seen) ==
    \E k \in 1..Len(text) :
        /\ Len(text[k]) = Len(esp32_mac_segs) + 7
        /\ SubSeq(text[k], 1, Len(esp32_mac_segs)) = esp32_mac_segs
        /\ text[k][Len(esp32_mac_segs) + 1] = esp32_ssid
        /\ text[k][Len(text[k])] \in seen

\* the target's record in a terse scan that has no LAST-SEEN column
HasTargetUnseen(text) ==
    \E k \in 1..Len(text) : text[k] = TerseLineNoLastSeen(esp32_mac_segs, esp32_ssid)

StaleStrings == {"4 seconds ago", "10 seconds ago", "1 minute ago", "1 hour ago"}

\* C1: the transitions a tracker reports alternate: BecameOnline is never
\* reported when the last transition reported was BecameOnline, BecameOffline
\* never when it was BecameOffline, and never both in one pass.
C1_TransitionsAlternate ==
    [][ /\ (actor' = "FinalPacketTest" /\ "BecameOnline" \in events')
            => (fp_lastTrans # "BecameOnline" /\ "BecameOffline" \notin events')
        /\ (actor' = "FinalPacketTest" /\ "BecameOffline" \in events')
            => fp_lastTrans # "BecameOffline"
        /\ (actor' = "RealtimePacketDumper" /\ "BecameOnline" \in events')
            => (rt_lastTrans # "BecameOnline" /\ "BecameOffline" \notin events')
        /\ (actor' = "RealtimePacketDumper" /\ "BecameOffline" \in events')
            => rt_lastTrans # "BecameOffline" ]_vars

\* C1 witness: online, offline and online again
C1_Witness ==
    fp_onlineEvents = 2 /\ fp_lastTrans = "BecameOnline" /\ fp_packet_count >= 3

\* C2, as claimed: BecameOffline is reported at the pass where the run of
\* misses reaches the miss threshold (5), and not before.
C2_OfflineAtThreshold ==
    [][ (actor' = "FinalPacketTest" /\ "BecameOffline" \in events')
            => fp_missRun' = max_misses ]_vars

\* C3: a tracker that is online has fewer consecutive misses than the miss
\* threshold; the test loop that is still running has consecutive_misses
\* below max_misses.
C3_OnlineBelowThreshold ==
    /\ fp_online => fp_missRun < max_misses
    /\ rt_online => rt_missRun < max_misses
    /\ ~bt_done => bt_consecutive_misses < max_misses

\* C3 witness: online after a run of misses, the test loop one miss from its end
C3_Witness ==
    /\ fp_online /\ fp_onlineEvents = 2
    /\ ~bt_done /\ bt_consecutive_misses = max_misses - 1

C5_AllFound ==
    (fp_ticks >= 1 /\ fp_allFound)
        => /\ fp_online
           /\ fp_missRun = 0
           /\ fp_packet_count = fp_ticks
           /\ fp_onlineEvents = 1
           /\ actor = "FinalPacketTest"
                => /\ fp_last_seen_time = clock
                   /\ "Confirmed" \in events
                   /\ ("BecameOnline" \in events) = (fp_ticks = 1)

\* C5 witness: six passes, all of them detections
C5_Witness == fp_ticks = 6 /\ fp_allFound /\ actor = "FinalPacketTest"

C7_FailureCountsAsMiss ==
    [][ /\ (actor' = "RealBatteryTest" /\ "NotDetected" \in events')
            => bt_consecutive_misses' = bt_consecutive_misses + 1
        /\ (actor' = "LivePacketDumper" /\ events' \cap {"Missed", "ScanFailed"} # {})
            => lv_consecutive_misses' = lv_consecutive_misses + 1 ]_vars

\* C8: in a run of failed scans the warning is printed at the pass where
\* the run reaches max_failures and at no earlier pass, and the loop goes
\* on: it has not left and its next pass can be taken.
C8_WarningAtThreshold ==
    /\ (actor = "RobustPacketMonitor" /\ rb_failRun \in 1..Robust_max_failures)
         => /\ ("Warning" \in events) = (rb_failRun = Robust_max_failures)
            /\ rb_running /\ ~rb_exited
            /\ clock < MaxClock => ENABLED RobustPacketMonitor_monitor
    /\ (actor = "ReliablePacketMonitor" /\ rl_failRun \in 1..Reliable_max_failures)
         => /\ ("Warning" \in events) = (rl_failRun = Reliable_max_failures)
            /\ rl_running /\ ~rl_exited
            /\ clock < MaxClock => ENABLED ReliablePacketMonitor_monitor

\* C8 witness: the pass after the one that warned, the scan failing still
C8_Witness ==
    /\ actor = "RobustPacketMonitor"
    /\ rb_failRun = Robust_max_failures + 1
    /\ rb_consecutive_failures = 1
    /\ rl_failRun = 0

\* C9, as claimed: a loop is left only when it was sent SIGINT.
C9_StopsOnlyOnSignal ==
    /\ bt_done => "RealBatteryTest" \in sigint
    /\ (rl_exited \/ ~rl_running) => "ReliablePacketMonitor" \in sigint

\* C9, amended: ReliablePacketMonitor.monitor is left only when it was sent
\* SIGINT, whatever the scans and the quick check gave, and until then its
\* next pass can be taken; RealBatteryTest.run_test is left without SIGINT
\* only at the pass where consecutive_misses reaches max_misses.
C9_ReliableStopsOnlyOnSignal ==
    /\ (rl_exited \/ ~rl_running) => "ReliablePacketMonitor" \in sigint
    /\ ("ReliablePacketMonitor" \notin sigint /\ clock < MaxClock)
         => ENABLED ReliablePacketMonitor_monitor
    /\ (bt_done /\ "RealBatteryTest" \notin sigint)
         => bt_consecutive_misses = max_misses

\* C9 witness: the quick check raised twice in a run of failed scans and
\* the loop is still there
C9_Witness ==
    /\ actor = "ReliablePacketMonitor"
    /\ "Error" \in events
    /\ rl_failRun = Reliable_max_failures + 1
    /\ rl_consecutive_failures = Reliable_max_failures + 1
    /\ rl_running /\ ~rl_exited

\* C10, as claimed: decoding the bytes of an encoded vendor element gives
\* back its organization id, its type and the length of its payload, in
\* each of the forms the element may come in.
C10_RoundTrip ==
    dec_pc = "decoded"
        => /\ ~dec.none
           /\ dec.oui = dec_oui
           /\ dec.type = dec_typ
           /\ dec.payload_len = Len(dec_payload)

\* the round trip of the element that comes with its element id and length
C10_FramedRoundTrip ==
    (dec_pc = "decoded" /\ dec_form = "framed")
        => /\ ~dec.none
           /\ dec.oui = dec_oui
           /\ dec.type = dec_typ
           /\ dec.payload_len = Len(dec_payload)

\* the bytes decode_opendroneid is left with after it dropped 0xdd and the
\* length
Remaining(hexs) ==
    LET s1 == IF Len(hexs) >= 1 /\ hexs[1] = TagVendor THEN Tail(hexs) ELSE hexs
    IN IF Len(s1) >= 1 THEN Len(s1) - 1 ELSE 0

C12_UnprefixedAsIs ==
    (dec_pc = "decoded" /\ dec_form = "hex" /\ Len(hexstr) >= 4)
        => /\ ~dec.none
           /\ dec.oui = SubSeq(hexstr, 1, 3)
           /\ dec.type = hexstr[4]
           /\ dec.payload_len = Len(hexstr) - 4

(***************************************************************************)
(* Properties of the parsers of a scan line.                               *)
(***************************************************************************)
\* 6 groups of 2 hex digits joined by ':'
MacShaped(tok) ==
    tok \in { esp32_mac, "AA:BB:CC:DD:EE:FF", "AA:BB:CC:DD:EE:01", "84:fc:e6:00:fc:05" }

\* the lines in the order identity, label, mode, channel, rate, signal,
\* glyph, security, the rate being one of `rates`
ValidLines(rates) ==
    { ScanLine(<<>>, b, <<esp32_ssid>>, r, <<"100", "bars", "WPA2">>) :
        b \in { x \in Identities : MacShaped(x) }, r \in rates }

\* the rate of a record as its tokens (parse_network_line takes one token)
RateTokens(parser, rec) ==
    IF parser = "ReliablePacketMonitor" THEN <<rec.rate>> ELSE rec.rate

\* C13, as claimed: a record that a parser returns has an identity of the
\* form of 6 groups of 2 hex digits; a line whose identity is not of that
\* form gives no record.
C13_IdentityIsMacShaped ==
    (pl_pc = "parsed" /\ ~pl_rec.none
        /\ pl_parser \in {"TimedPacketDumper", "CorrectedPacketDumper", "ReliablePacketMonitor"})
        => MacShaped(pl_rec.bssid)

\* C14, as claimed: a line that is not of the form identity, label, mode,
\* channel, rate, signal, glyph, security (too few or too many tokens, no
\* identity in the first place, a header) gives no record.
C14_MalformedGivesNoRecord ==
    (pl_pc = "parsed" /\ pl_line \notin ValidLines(Rates)
        /\ pl_parser \in {"RIDPacketDecoder", "InstantPacketPrinter", "final_rid_analysis"})
        => pl_rec.none

\* C15, as claimed: for a valid line whose rate is a number and a unit, the
\* rate of the record is the two tokens joined, the signal is the token
\* after the unit, then come the glyph and the security.
C15_RateMerged ==
    (pl_pc = "parsed" /\ pl_line \in ValidLines({<<"65", "Mbit/s">>})
        /\ pl_parser \in {"TimedPacketDumper", "CorrectedPacketDumper", "ReliablePacketMonitor"})
        => /\ ~pl_rec.none
           /\ RateTokens(pl_parser, pl_rec) = <<pl_line[5], pl_line[6]>>
           /\ pl_rec.signal = pl_line[7]
           /\ pl_rec.bars = pl_line[8]
           /\ pl_rec.security = pl_line[9]

\* C16, as claimed: for a valid line whose rate has no unit, the rate of
\* the record is the number, the signal is the token after it, and the
\* glyph and the security follow, not shifted.
C16_UnitLookedFor ==
    (pl_pc = "parsed" /\ pl_line \in ValidLines({<<"65">>})
        /\ pl_parser \in {"TimedPacketDumper", "RIDPacketDecoder", "InstantPacketPrinter"})
        => /\ ~pl_rec.none
           /\ pl_rec.rate = <<pl_line[5]>>
           /\ pl_rec.signal = pl_line[6]
           /\ pl_rec.security = pl_line[8]

(***************************************************************************)
(* Properties of the stop signal.                                          *)
(***************************************************************************)
\* C17, as claimed: the loop is left only from its while test, and a scan
\* call that is in flight when SIGINT comes is not abandoned.
C17_StopAtTopOfCycle ==
    [][ /\ rs_pc' = "exit" => rs_pc = "top"
        /\ rs_sigAt' = "scan" => ~rs_cancelled' ]_vars

\* RobustPacketMonitor.run has printed its final statistics when SIGINT
\* stopped it, wherever the signal met it
Robust_StatsOnStop ==
    (rs_pc = "exit" /\ rs_sigAt # "none") => rs_stats

\* C18, as claimed: a loop that SIGINT stopped has printed its final
\* summary, wherever the signal met it.
C18_SummaryOnStop ==
    /\ (actor = "RealBatteryTest" /\ "Stopping" \in events) => "Summary" \in events
    /\ (actor = "SixtySecondPacketDumper" /\ "Stopping" \in events) => "Summary" \in events

\* C19, as claimed: the delay after a cycle whose scan failed is the delay
\* after a cycle whose scan succeeded, however many failures came before.
C19_SameDelay ==
    /\ actor = "BatteryTestMonitor" => slept = BatteryTestMonitor_sleep(FALSE, 0)
    /\ actor = "CorrectedPacketDumper" => slept = CorrectedPacketDumper_sleep(FALSE, 0)
    /\ (actor = "RobustPacketMonitor.run" /\ rs_pc = "top") => slept = 1

\* C19, amended: the delay after a failed cycle is fixed, it does not grow
\* with the run of failures: 2 s in BatteryTestMonitor and 5 s in
\* CorrectedPacketDumper, whose successful cycles wait 1 s, and 1 s after
\* every cycle of RobustPacketMonitor.
C19_NoBackoff ==
    /\ actor = "BatteryTestMonitor" => slept = (IF bm_failRun >= 1 THEN 2 ELSE 1)
    /\ actor = "CorrectedPacketDumper" => slept = (IF cp_failRun >= 1 THEN 5 ELSE 1)
    /\ (actor = "RobustPacketMonitor.run" /\ rs_pc = "top") => slept = 1

\* C19 witness: the third failed scan in a row of BatteryTestMonitor
C19_Witness ==
    /\ actor = "BatteryTestMonitor"
    /\ bm_failRun = 3 /\ slept = 2
    /\ bm_esp32_packets >= 1

\* the lines of wp_out that report a decoded vendor element
DecodedLines == { i \in 1..Len(wp_out) : wp_out[i].kind = "vendor IE" }

\* C20 as stated: the vendor payload of a block that was found but is stale
\* is never decoded or reported as decoded
C20_StaleNotDecoded ==
    (actor = "rid_wifi_parser" /\ ~wp_blk.none /\ Stale(wp_blk.last))
        => DecodedLines = {}

\* C20, amended: the vendor decoder is run on every pass in which the block
\* of the target was found, whatever its "last seen" age: every element of
\* the block that can be decoded is reported as decoded, whether the block
\* is fresh, stale or without an age; nothing is decoded in a pass in which
\* the target was not seen
C20_DecodedWhateverAge ==
    actor = "rid_wifi_parser" =>
        IF wp_blk.none THEN DecodedLines = {}
        ELSE \A j \in 1..Len(wp_blk.lines) :
               LET l == wp_blk.lines[j]
                   d == decode_opendroneid(l.rest)
               IN (l.head = "IE:" /\ l.unknown /\ Len(l.rest) >= 2 /\ ~d.none)
                    => \E i \in DecodedLines :
                         /\ wp_out[i].oui = d.oui
                         /\ wp_out[i].type = d.type
                         /\ wp_out[i].payload_bytes = d.payload_len

\* a stale block whose vendor element was decoded and reported
C20_Witness ==
    /\ actor = "rid_wifi_parser"
    /\ ~wp_blk.none /\ Stale(wp_blk.last)
    /\ DecodedLines # {}

\* C21: for every vendor payload of a found block that fails to decode, a
\* "present but undecodable" line (the raw bytes and their number) is
\* printed for that payload
C21_UndecodableReported ==
    (actor = "rid_wifi_parser" /\ ~wp_blk.none) =>
        LET vendors == extract_vendor_ie(wp_blk)
        IN \A j \in 1..Len(vendors) :
             decode_opendroneid(vendors[j]).none =>
                \E i \in 1..Len(wp_out) :
                    /\ wp_out[i].kind = "vendor IE raw"
                    /\ wp_out[i].raw = First16(vendors[j])
                    /\ wp_out[i].bytes = Len(vendors[j])

\* C22: a tracker starts offline: esp32_online is false and no transition
\* has been reported until the first confirmed sighting, and the first
\* transition a run reports is BecameOnline (no BecameOffline before it)
C22_StartsOffline ==
    /\ [](/\ fp_packet_count = 0 => (~fp_online /\ fp_lastTrans = "none")
          /\ rt_packet_count = 0 => (~rt_online /\ rt_lastTrans = "none"))
    /\ [][ /\ (fp_lastTrans = "none" /\ fp_lastTrans' # "none")
               => (fp_lastTrans' = "BecameOnline" /\ fp_online' /\ fp_packet_count' = 1)
           /\ (rt_lastTrans = "none" /\ rt_lastTrans' # "none")
               => (rt_lastTrans' = "BecameOnline" /\ rt_online' /\ rt_packet_count' = 1) ]_vars

\* C22 witness: the tracker loop missed the target twice or more, reported
\* nothing, then saw it for the first time and reported BecameOnline
C22_Witness ==
    /\ actor = "FinalPacketTest"
    /\ fp_ticks >= 3 /\ fp_packet_count = 1 /\ fp_online
    /\ events = {"BecameOnline", "Confirmed"}

\* the rows of wifi_data (all lines but the header)
Rows == { k \in 1..Len(wifi_data) : wifi_data[k] # HeaderLine }

\* C23: a row whose identity differs from the target identity in letter case
\* at most, and whose label is the target label, is matched as the target
C23_CaseInsensitive ==
    (/\ actor \in FilterChecks
     /\ ~InText("Error", wifi_data)
     /\ \E k \in Rows : /\ Upper(wifi_data[k][1]) = Upper(esp32_mac)
                        /\ wifi_data[k][2] = esp32_ssid)
        => "Found" \in events

\* C24: a pass of RealtimePacketDumper whose scan holds a terse line with the
\* target's BSSID and SSID and a LAST-SEEN of at most 3 seconds finds the
\* target (and so confirms it and has the tracker online)
C24_FreshLineFound ==
    (/\ actor = "RealtimePacketDumper"
     /\ ~TerseHasError(wifi_data)
     /\ HasTargetSeen(wifi_data, {"now", "3 seconds ago"}))
        => ("Confirmed" \in events /\ rt_online)

\* C25: _parse_last_seen_seconds gives 0 for 'now', N for 'N second(s) ago',
\* 60*N for 'N minute(s) ago', 3600*N for 'N hour(s) ago', and a value above
\* the freshness threshold for an empty string, a string that does not start
\* with a number and a string with an unknown unit; such a LAST-SEEN is
\* never classified as live
C25_LastSeenSeconds ==
    ls_pc \in {"parsed", "classified"} =>
        /\ ls_last_seen = "now" => ls_seconds = 0
        /\ \A n \in Numbers \cap FloatTokens :
              /\ ls_last_seen \in {Phrase(n, "second"), Phrase(n, "seconds")}
                    => ls_seconds = FloatOf(n)
              /\ ls_last_seen \in {Phrase(n, "minute"), Phrase(n, "minutes")}
                    => ls_seconds = 60 * FloatOf(n)
              /\ ls_last_seen \in {Phrase(n, "hour"), Phrase(n, "hours")}
                    => ls_seconds = 3600 * FloatOf(n)
        /\ (\/ ls_last_seen \in {"", "soon"}
            \/ \E n \in Numbers \ FloatTokens, u \in Units : ls_last_seen = Phrase(n, u)
            \/ \E n \in Numbers : ls_last_seen = Phrase(n, "days"))
              => /\ ls_seconds > FreshSeconds
                 /\ ls_seconds = Huge
                 /\ ls_pc = "classified" => ~ls_live

\* C25 witness: LAST-SEEN strings with an unknown unit, without a number and
\* with a number and a unit were classified: the first two as stale
C25_Witness ==
    /\ ls_pc = "classified"
    /\ \/ ls_last_seen = Phrase("3", "days") /\ ~ls_live
       \/ ls_last_seen = Phrase("x", "seconds") /\ ~ls_live /\ ls_seconds = Huge

\* C26: in every monitor the detection counter grows by one at most in a
\* scan cycle, so that detections <= scans and the detection rate is 100%
\* at most
C26_DetectionsAtMostScans ==
    /\ rb_esp32_detections <= rb_scan_count
    /\ rl_esp32_detections <= rl_scan_count

\* C27: a presence check finds the target only in a scan that holds a row
\* whose identity is the target identity (in either letter case); a row of
\* another emitter whose label contains the target label does not make it
\* find the target
C27_IdentityDecides ==
    (actor \in FilterChecks /\ "Found" \in events)
        => \E k \in Rows : Upper(wifi_data[k][1]) = Upper(esp32_mac)

\* C28: when the scan call succeeded and a line of its output holds the
\* target identity and the target label, the presence check returns found,
\* whatever the other lines hold
C28_OtherLinesDoNotMatter ==
    (/\ actor = "RealBatteryTest.check_esp32_presence"
     /\ \E k \in Rows : /\ wifi_data[k][1] = esp32_mac
                        /\ wifi_data[k][2] = esp32_ssid)
        => "Found" \in events

\* C29: in RobustPacketMonitor and ReliablePacketMonitor consecutive_failures
\* is below max_failures at the end of every cycle (a scan with output and a
\* warning reset it), and in a run of failed scans the warning is printed at
\* every max_failures-th failure and at no other
C29_CounterBelowThreshold ==
    /\ rb_consecutive_failures \in 0..(Robust_max_failures - 1)
    /\ rl_consecutive_failures \in 0..(Reliable_max_failures - 1)
    /\ (actor = "RobustPacketMonitor" /\ rb_failRun >= 1)
         => ("Warning" \in events) = (rb_failRun % Robust_max_failures = 0)
    /\ (actor = "ReliablePacketMonitor" /\ rl_failRun >= 1)
         => ("Warning" \in events) = (rl_failRun % Reliable_max_failures = 0)

\* C30: in RealBatteryTest.run_test consecutive_misses is set to 0 by every
\* detection and grows by one with every miss and every scan error; it is
\* never above max_misses; the loop ends by itself at the pass where the
\* count reaches max_misses and at no earlier pass, so a loop that finds the
\* target once in every max_misses scans does not end by itself
C30_EndsAtMaxMisses ==
    /\ [](/\ bt_consecutive_misses \in 0..max_misses
          /\ (bt_done /\ "RealBatteryTest" \notin sigint)
                => bt_consecutive_misses = max_misses
          /\ (bt_consecutive_misses = max_misses) => bt_done)
    /\ [][ (actor' = "RealBatteryTest" /\ "Stopping" \notin events') =>
             /\ "Detected" \in events'
                  => (bt_consecutive_misses' = 0 /\ ~bt_done')
             /\ "NotDetected" \in events'
                  => bt_consecutive_misses' = bt_consecutive_misses + 1
             /\ InText("Error", wifi_data') => "NotDetected" \in events'
             /\ events' \cap {"Detected", "NotDetected"} # {} ]_vars

\* C30 witness: the loop ended by itself at the fifth miss in a row, a scan
\* error, after it had found the target
C30_Witness ==
    /\ actor = "RealBatteryTest"
    /\ bt_done /\ "RealBatteryTest" \notin sigint
    /\ bt_packet_count >= 1
    /\ bt_consecutive_misses = max_misses
    /\ InText("Error", wifi_data)

\* the seconds since the last detection or, when there was none, since the
\* start
Timed_SecondsWithout ==
    IF td_last_esp32_time > 0 THEN start_time + td_elapsed - td_last_esp32_time
    ELSE td_elapsed

\* C31: a pass of TimedPacketDumper.monitor that begins more than
\* timeout_seconds after the last detection, or after the start when the
\* target was never detected, debugs and leaves the loop
C31_StopsAfterTimeout ==
    [][ (actor' = "TimedPacketDumper" /\ Timed_SecondsWithout > timeout_seconds)
            => (td_done' /\ events' = {"Debug", "Timeout"}) ]_vars

\* C32: after SIGINT, wherever in the cycle it was delivered, the monitor
\* starts no further scan and in the end it has left its loop; this holds
\* also when the exit the handler raised was swallowed inside the scan call
C32_NoScanAfterSignal ==
    /\ [][ rs_sigAt # "none" => rs_pc' # "scan" ]_vars
    /\ (rs_sigAt # "none") ~> (rs_pc = "exit" /\ ~rs_running)

\* C32 witness: SIGINT came during the scan call, the call was abandoned and
\* returned "", the cycle went on and the loop was left at its next test
C32_Witness ==
    /\ rs_sigAt = "scan" /\ rs_cancelled
    /\ rs_pc = "exit" /\ rs_stats
    /\ rs_scan_count >= 2


\* C33: when AdvancedPacketMonitor.run is over and tcpdump monitoring failed
\* (the capture process could not be started, or the capture loop raised an
\* error), nmcli monitoring was run as the fallback; and whenever run is over
\* the final statistics were printed.
C33_FallsBackAndPrints ==
    av_pc = "done" =>
        /\ av_stats
        /\ (av_failed # "none" => av_fallback)


\* C34: in WorkingPacketMonitor, whenever check_for_esp32 reported the target
\* present on a scan output (a detection was counted), extract_esp32_info
\* returned a record on that output, and the record is the target's: its
\* bssid is the target's MAC and its ssid the target's label.
C34_DetectionHasRecord ==
    (actor = "WorkingPacketMonitor" /\ wk_found) =>
        /\ wk_network # NoRecord
        /\ wk_network.bssid = esp32_mac
        /\ wk_network.ssid = esp32_ssid


\* the rows of networks in a scan output: with or without the in-use marker,
\* a BSSID, a label of one word, of two words or "--", and all the columns
NetworkRows ==
    { ScanLine(m, b, l, <<"65", "Mbit/s">>, <<"100", "bars", "WPA2">>) :
        m \in Markers, b \in { x \in Identities : MacShaped(x) }, l \in Labels }

\* C35: parse_network_line (parse_wifi_line) returns a record for every row
\* of a network, the row of the connected network and the rows with a "--"
\* column included, and the bssid of the record is the identity of the row.
C35_EveryRowGivesRecord ==
    (pl_pc = "parsed" /\ pl_parser \in {"ReliablePacketMonitor", "WiFiPacketMonitor"}
        /\ pl_line \in NetworkRows)
        => (~pl_rec.none /\ pl_rec.bssid = pl_line[FirstMac(pl_line)])

=============================================================================
